---- MODULE Spec2Model ----
(***************************************************************************)
(* Model of the housekeeping engine (housekeeper/engine.py) and of the     *)
(* registry client it drives (housekeeper/ha_ws.py).                       *)
(*                                                                         *)
(* Strings are sequences of one-character strings, so that the string      *)
(* algorithms of the engine (lower-casing, tokenizing, suffix parsing,     *)
(* pattern search, concatenation) are computed and not assumed.  Python's  *)
(* None is the value None below, which is no character sequence.           *)
(***************************************************************************)
EXTENDS Integers, Sequences, FiniteSets, TLC

VARIABLES
    reg,          \* the registry: areas, devices, entities, states (lists)
    io,           \* where the coroutine is in the client call it awaits
    rules,        \* the rule document load_rules returns
    planFile,     \* plan.json: <<>> when absent, else <<the persisted plan>>
    rollbackFile, \* rollback.json: <<>> when absent, else <<the record>>
    ignoredFile,  \* ignored.json: the set of ignored fingerprints
    pc,           \* where the coroutine that ran last is ("idle": it has ended)
    ap,           \* its locals of apply()
    rb,           \* its locals of rollback()
    waiting,      \* the other coroutines that wait for the registry's answer
    result,       \* what the last finished operation returned or raised
    calls,        \* the registry mutations the coroutine's operation has sent
    hist,         \* history: what the claims compare against
    ops,          \* number of apply and rollback operations started
    approvedReq,  \* the approved_action_ids the caller sends with apply
    pl,           \* the locals of plan() and audit()
    drawn,        \* number of uuids drawn so far
    runs,         \* history: the planning runs that finished
    pops,         \* number of planner and store requests started
    lim,          \* how many operations of each kind a behaviour starts
    faults,       \* number of times the other side has failed a call
    client,       \* the registry client: its token, _ws and _msg_id
    conns,        \* the connections opened so far, each open, closing or closed
    task          \* the coroutines calling the client: position and locals

\* The engine's state and the client's.
engvars == <<reg, io, rules, planFile, rollbackFile, ignoredFile, pc, ap, rb,
             waiting, result, calls, hist, ops, approvedReq, pl, drawn, runs, pops, lim,
             faults>>

wsvars == <<client, conns, task>>

vars == <<engvars, wsvars>>

-----------------------------------------------------------------------------
(* Bounds of the model. *)

MaxPlanLen == 2
MaxOps == 2
MaxPlanOps == 2
MaxEntities == 2
MaxCalls == 2
MaxConns == 2

-----------------------------------------------------------------------------
(* Values. *)

None == <<"None">>

\* Python truthiness of an optional string: None and "" are falsy.
Falsy(v) == v = None \/ v = <<>>
Truthy(v) == ~Falsy(v)

\* dict.get(k): the value, or None when the key is absent.
Get(d, k) == IF k \in DOMAIN d THEN d[k] ELSE None
\* dict.get(k, dflt)
GetOr(d, k, dflt) == IF k \in DOMAIN d THEN d[k] ELSE dflt

\* a or b
Or2(a, b) == IF Truthy(a) THEN a ELSE b

Range(s) == {s[i] : i \in 1..Len(s)}

RECURSIVE Reverse(_)
Reverse(s) == IF s = <<>> THEN <<>> ELSE Append(Reverse(Tail(s)), Head(s))

\* Identifiers and names of the apply/rollback universe.
E1 == <<"l", ".", "x">>
E2 == <<"l", ".", "y">>
D1 == <<"d", "1">>
A1 == <<"a", "1">>
A2 == <<"a", "2">>
NameA == <<"A">>
NameB == <<"B">>
NameC == <<"C">>
NameN == <<"N">>
NameM == <<"M">>
User == <<"u", "s", "e", "r">>

Digits == <<"0", "1", "2", "3", "4", "5", "6", "7", "8", "9">>
DigitChar(n) == Digits[n + 1]

-----------------------------------------------------------------------------
(* Strings: the operations of Python's str and re the engine uses. *)

\* The characters of the model, in code point order.
Ascii ==
    << " ", "$", "(", "-", ".",
       "0", "1", "2", "3", "4", "5", "6", "7", "8", "9", ":",
       "A", "B", "C", "D", "E", "F", "G", "H", "I", "J", "K", "L", "M",
       "N", "O", "P", "Q", "R", "S", "T", "U", "V", "W", "X", "Y", "Z",
       "^", "_",
       "a", "b", "c", "d", "e", "f", "g", "h", "i", "j", "k", "l", "m",
       "n", "o", "p", "q", "r", "s", "t", "u", "v", "w", "x", "y", "z" >>

\* ord(c), up to the offset of the first character.
OrdTable == [c \in Range(Ascii) |-> CHOOSE i \in 1..Len(Ascii) : Ascii[i] = c]

Ord(c) == OrdTable[c]

UpperChars == {Ascii[i] : i \in OrdTable["A"]..OrdTable["Z"]}
LowerChars == {Ascii[i] : i \in OrdTable["a"]..OrdTable["z"]}
DigitChars == {Ascii[i] : i \in OrdTable["0"]..OrdTable["9"]}

IsLower(c) == c \in LowerChars
IsDigit(c) == c \in DigitChars

LowerTable ==
    [c \in Range(Ascii) |->
        IF c \in UpperChars THEN Ascii[OrdTable[c] - OrdTable["A"] + OrdTable["a"]] ELSE c]

LowerChar(c) == LowerTable[c]

\* s.lower()
Lower(s) == [i \in 1..Len(s) |-> LowerChar(s[i])]

\* s.strip(): the white space of the model is the space.
RECURSIVE LStrip(_)
LStrip(s) == IF s # <<>> /\ Head(s) = " " THEN LStrip(Tail(s)) ELSE s

Strip(s) == Reverse(LStrip(Reverse(LStrip(s))))

\* str(x or "")
StrOrEmpty(v) == IF Falsy(v) THEN <<>> ELSE v

\* a < b for strings (code point order, a proper prefix first).
StrLess(a, b) ==
    LET n == IF Len(a) < Len(b) THEN Len(a) ELSE Len(b)
        D == {i \in 1..n : a[i] # b[i]}
    IN  IF D = {} THEN Len(a) < Len(b)
        ELSE LET i == CHOOSE k \in D : \A m \in D : k <= m
             IN  Ord(a[i]) < Ord(b[i])

\* sorted(S) for a set of strings.
RECURSIVE SortedStrs(_)
SortedStrs(S) ==
    IF S = {} THEN <<>>
    ELSE LET m == CHOOSE x \in S : \A y \in S : y = x \/ StrLess(x, y)
         IN  <<m>> \o SortedStrs(S \ {m})

\* needle in hay
Contains(hay, needle) ==
    \E i \in 0..(Len(hay) - Len(needle)) :
        \A j \in 1..Len(needle) : hay[i + j] = needle[j]

\* s.startswith(prefix)
StartsWith(s, prefix) ==
    Len(prefix) <= Len(s) /\ \A j \in 1..Len(prefix) : s[j] = prefix[j]

\* " ".join(parts)
RECURSIVE Join(_)
Join(parts) ==
    IF parts = <<>> THEN <<>>
    ELSE IF Len(parts) = 1 THEN parts[1]
    ELSE parts[1] \o <<" ">> \o Join(Tail(parts))

\* str(n) for n >= 0
RECURSIVE Itoa(_)
Itoa(n) == IF n < 10 THEN <<DigitChar(n)>> ELSE Itoa(n \div 10) \o <<DigitChar(n % 10)>>

\* util.py 6-10: lower-case, split on runs of characters outside [a-z0-9],
\* keep the non-empty pieces as a set.
IsTokenChar(c) == IsLower(c) \/ IsDigit(c)

RECURSIVE Split(_, _)
Split(s, cur) ==
    IF s = <<>> THEN (IF cur = <<>> THEN {} ELSE {cur})
    ELSE IF IsTokenChar(Head(s)) THEN Split(Tail(s), Append(cur, Head(s)))
    ELSE (IF cur = <<>> THEN {} ELSE {cur}) \cup Split(Tail(s), <<>>)

tokenize(s) ==
    LET t == Lower(Strip(StrOrEmpty(s)))
    IN  IF t = <<>> THEN {} ELSE Split(t, <<>>)

\* A suffix of digits, whatever its value.
IsDupSuffix_AnyNumber(t) ==
    /\ Len(t) >= 1
    /\ \A i \in 1..Len(t) : IsDigit(t[i])

\* util.py 13-18: ^(?P<base>.+)_([2-9]|[1-9][0-9]+)$ : the greedy base ends at
\* the last "_" (the suffix holds none); the result is <<is_dup, base>>.
IsDupSuffix(t) ==
    \/ Len(t) = 1 /\ IsDigit(t[1]) /\ Ord(t[1]) >= Ord("2")
    \/ /\ Len(t) >= 2
       /\ \A i \in 1..Len(t) : IsDigit(t[i])
       /\ t[1] # "0"

is_suffix_duplicate_entity(entity_id) ==
    LET U == {i \in 1..Len(entity_id) : entity_id[i] = "_"}
        C == {i \in U : i >= 2 /\ IsDupSuffix(SubSeq(entity_id, i + 1, Len(entity_id)))}
    IN  IF C = {} THEN <<FALSE, entity_id>>
        ELSE LET i == CHOOSE k \in C : \A m \in C : m <= k
             IN  <<TRUE, SubSeq(entity_id, 1, i - 1)>>

\* engine.py 103-107: re.compile(pattern, IGNORECASE), None when the pattern
\* is no regular expression.  The patterns of the model are made of literal
\* characters, ".", "^", "$" and "(" ; a "(" is never closed, so a pattern
\* holding one does not compile.
RegexCompiles(pat) == \A i \in 1..Len(pat) : pat[i] # "("

\* Whether pat[i..] matches s from position j on.
RECURSIVE RegexMatchAt(_, _, _, _)
RegexMatchAt(pat, i, s, j) ==
    IF i > Len(pat) THEN TRUE
    ELSE IF pat[i] = "^" THEN j = 1 /\ RegexMatchAt(pat, i + 1, s, j)
    ELSE IF pat[i] = "$" THEN j = Len(s) + 1 /\ RegexMatchAt(pat, i + 1, s, j)
    ELSE /\ j <= Len(s)
         /\ pat[i] = "." \/ LowerChar(pat[i]) = LowerChar(s[j])
         /\ RegexMatchAt(pat, i + 1, s, j + 1)

\* rx.search(s)
RegexSearch(pat, s) == \E j \in 1..(Len(s) + 1) : RegexMatchAt(pat, 1, s, j)

-----------------------------------------------------------------------------
(* The registry behind the client (ha_ws.py): lists of areas, devices and  *)
(* entities.  A mutation is a call; the registry accepts it or rejects it. *)

\* A request that changes the registry.  done says whether the registry
\* carried it out, ok whether the client returned its result to the caller.
Call(op, target, fields, aid) ==
    [op |-> op, target |-> target, fields |-> fields, aid |-> aid,
     ok |-> FALSE, done |-> FALSE]

HasArea(r, area_id) == \E i \in 1..Len(r.areas) : r.areas[i].area_id = area_id
HasDevice(r, id) == \E i \in 1..Len(r.devices) : r.devices[i].id = id
HasEntity(r, id) == \E i \in 1..Len(r.entities) : r.entities[i].entity_id = id
HasAreaName(r, name) == \E i \in 1..Len(r.areas) : r.areas[i].name = name

\* A record with the fields of f overriding those of e.
Merge(e, f) == [k \in DOMAIN e |-> IF k \in DOMAIN f THEN f[k] ELSE e[k]]

\* Whether the registry can accept the call at all (the target exists; an
\* area name stays unique).  A call that can be accepted may still fail.
Acceptable(r, c) ==
    CASE c.op = "entity_update" -> HasEntity(r, c.target)
      [] c.op = "entity_remove" -> HasEntity(r, c.target)
      [] c.op = "device_update" -> HasDevice(r, c.target)
      [] c.op = "area_update" ->
            /\ HasArea(r, c.target)
            /\ \A i \in 1..Len(r.areas) :
                 r.areas[i].name = c.fields.name => r.areas[i].area_id = c.target
      [] c.op = "area_create" -> ~HasAreaName(r, c.fields.name)
      [] OTHER -> FALSE

\* The registry after an accepted call.
Mutate(r, c) ==
    CASE c.op = "entity_update" ->
            [r EXCEPT !.entities =
                [i \in 1..Len(r.entities) |->
                    IF r.entities[i].entity_id = c.target
                    THEN Merge(r.entities[i], c.fields) ELSE r.entities[i]]]
      [] c.op = "entity_remove" ->
            [r EXCEPT !.entities =
                SelectSeq(r.entities, LAMBDA e : e.entity_id # c.target)]
      [] c.op = "device_update" ->
            [r EXCEPT !.devices =
                [i \in 1..Len(r.devices) |->
                    IF r.devices[i].id = c.target
                    THEN Merge(r.devices[i], c.fields) ELSE r.devices[i]]]
      [] c.op = "area_update" ->
            [r EXCEPT !.areas =
                [i \in 1..Len(r.areas) |->
                    IF r.areas[i].area_id = c.target
                    THEN Merge(r.areas[i], c.fields) ELSE r.areas[i]]]
      [] c.op = "area_create" ->
            [r EXCEPT !.areas =
                Append(r.areas, [area_id |-> c.target, name |-> c.fields.name])]
      [] OTHER -> r

\* The exception a call of the client that did not return ends with, given
\* how the call ended: connect() raises ConnectionError (ha_ws.py 31-35,
\* 69-77), send() RuntimeError (111-116).
ErrorOf(last) == IF last = "connection_error" THEN "ConnectionError" ELSE "RuntimeError"

\* The request for one of the registry's lists (ha_ws.py 122-132).
Listing(f) == [op |-> "list", target |-> f]

-----------------------------------------------------------------------------
(* apply(): engine.py 869-1054. *)

\* {x.get(key): x for x in xs if x.get(key)}.get(id): the entry, as a list of
\* zero or one element (the last one wins in a dict comprehension).
Lookup(xs, key, id) ==
    LET S == {i \in 1..Len(xs) : Truthy(xs[i][key]) /\ xs[i][key] = id}
    IN  IF S = {} THEN <<>> ELSE <<xs[CHOOSE i \in S : \A j \in S : j <= i]>>

\* The prior values lost: every field is recorded as null.
BeforeGet_Null(found, k) == None

\* before.get(k) for before = by_id.get(id, {})
BeforeGet(found, k) == IF found = <<>> THEN None ELSE found[1][k]

\* The ids Home Assistant may give an area of the given name; the engine
\* treats the id as opaque.
AreaIdsFor(name) == {Lower(name), <<"n", "e", "w", "_">> \o name}

\* What area_create(name) may do at the registry r: the entry made, under an
\* id no area has, and the result sent back, which is that entry or one that
\* lacks the id.
AreaAnswers(r, name) ==
    UNION {{[made |-> [area_id |-> x, name |-> name], res |-> res] :
               res \in {[area_id |-> x, name |-> name], [name |-> name]}} :
           x \in {y \in AreaIdsFor(name) : ~HasArea(r, y)}}

\* 908: area_id = res.get("area_id")
NewAreaId(res) == Get(res, "area_id")

SkipReason(text, arg) == [text |-> text, arg |-> arg]

\* What one pass through a handler does up to the call it awaits: the entries
\* added to skipped and to rollback_steps, the request of the call (a list of
\* zero or one request) and whether the id is appended to applied without a
\* call.
Outcome(skipped, steps, cs, applied) ==
    [skipped |-> skipped, steps |-> steps, calls |-> cs, applied |-> applied]

Skip_Applied(aid, text, arg) ==
    Outcome(<<[id |-> aid, reason |-> SkipReason(text, arg)]>>, <<>>, <<>>, TRUE)

Skip_Noted(aid, text, arg) ==
    Outcome(<<[id |-> aid, reason |-> SkipReason(text, arg)]>>,
            <<[type |-> "note", id |-> aid]>>, <<>>, FALSE)

Skip(aid, text, arg) ==
    Outcome(<<[id |-> aid, reason |-> SkipReason(text, arg)]>>, <<>>, <<>>, FALSE)

\* A handler that records its step and then awaits one registry call.
StepThenCall_Unrecorded(step, c) == Outcome(<<>>, <<>>, <<c>>, FALSE)

StepThenCall(step, c) == Outcome(<<>>, <<step>>, <<c>>, FALSE)

\* The gate with the test on the id lost: any approval approves everything.
NeedsApproval_AnyApproves(a, approved) ==
    a.requires_approval /\ approved = {}

\* The gate with the approvals lost: what requires approval is skipped.
NeedsApproval_NeverApproved(a, approved) ==
    a.requires_approval

\* engine.py 892: the approval gate.
NeedsApproval(a, approved) ==
    a.requires_approval /\ a.id \notin approved

\* One pass of the loop over the plan's actions (engine.py 890-1050) up to
\* the call it awaits.  snap holds the registry as listed at 882-884.
ApplyOne(a, approved, snap) ==
    LET aid == a.id
        atype == a.type
        payload == a.payload
        entity_id == Get(payload, "entity_id")
        device_id == Get(payload, "device_id")
        area_id == Get(payload, "area_id")
        name == Get(payload, "name")
        entBefore == Lookup(snap.entities, "entity_id", entity_id)
        devBefore == Lookup(snap.devices, "id", device_id)
        areaBefore == Lookup(snap.areas, "area_id", area_id)
    IN
    IF NeedsApproval(a, approved) THEN Skip(aid, "requires_approval", "")
    ELSE IF atype = "create_area" THEN
        IF Falsy(name) THEN Skip(aid, "missing name", "")
        ELSE IF \E i \in 1..Len(snap.areas) :
                   Truthy(snap.areas[i].name) /\ snap.areas[i].name = name
        THEN Outcome(<<>>, <<>>, <<>>, TRUE)
        ELSE Outcome(<<>>, <<>>, <<Call("area_create", None, [name |-> name], aid)>>,
                     FALSE)
    ELSE IF atype = "set_entity_area" THEN
        IF Falsy(entity_id) \/ Falsy(area_id)
        THEN Skip(aid, "missing entity_id/area_id", "")
        ELSE StepThenCall([type |-> "entity_update", entity_id |-> entity_id,
                           before |-> [area_id |-> BeforeGet(entBefore, "area_id")]],
                          Call("entity_update", entity_id, [area_id |-> area_id], aid))
    ELSE IF atype = "set_device_area" THEN
        IF Falsy(device_id) \/ Falsy(area_id)
        THEN Skip(aid, "missing device_id/area_id", "")
        ELSE StepThenCall([type |-> "device_update", device_id |-> device_id,
                           before |-> [area_id |-> BeforeGet(devBefore, "area_id")]],
                          Call("device_update", device_id, [area_id |-> area_id], aid))
    ELSE IF atype = "rename_entity" THEN
        IF Falsy(entity_id) \/ Falsy(name)
        THEN Skip(aid, "missing entity_id/name", "")
        ELSE StepThenCall([type |-> "entity_update", entity_id |-> entity_id,
                           before |-> [name |-> BeforeGet(entBefore, "name")]],
                          Call("entity_update", entity_id, [name |-> name], aid))
    ELSE IF atype = "hide_entity" THEN
        IF Falsy(entity_id) THEN Skip(aid, "missing entity_id", "")
        ELSE StepThenCall([type |-> "entity_update", entity_id |-> entity_id,
                           before |-> [hidden_by |-> BeforeGet(entBefore, "hidden_by"),
                                       disabled_by |->
                                           BeforeGet(entBefore, "disabled_by")]],
                          Call("entity_update", entity_id,
                               [hidden_by |-> GetOr(payload, "hidden_by", User)], aid))
    ELSE IF atype = "remove_entity_registry_entry" THEN
        IF Falsy(entity_id) THEN Skip(aid, "missing entity_id", "")
        ELSE StepThenCall([type |-> "entity_restore_note", entity_id |-> entity_id,
                           before |-> entBefore],
                          Call("entity_remove", entity_id, <<>>, aid))
    ELSE IF atype = "rename_device" THEN
        IF Falsy(device_id) \/ Falsy(name)
        THEN Skip(aid, "missing device_id/name", "")
        ELSE StepThenCall([type |-> "device_update", device_id |-> device_id,
                           before |-> [name_by_user |->
                                          BeforeGet(devBefore, "name_by_user")]],
                          Call("device_update", device_id, [name_by_user |-> name], aid))
    ELSE IF atype = "rename_area" THEN
        IF Falsy(area_id) \/ Falsy(name)
        THEN Skip(aid, "missing area_id/name", "")
        ELSE StepThenCall([type |-> "area_update", area_id |-> area_id,
                           before |-> [name |-> BeforeGet(areaBefore, "name")]],
                          Call("area_update", area_id, [name |-> name], aid))
    ELSE Skip(aid, "unsupported action type", atype)

\* 996-1003: the alternate call of hide_entity, sent when the first raised.
Alternate(a) ==
    Call("entity_update", a.payload.entity_id,
         [disabled_by |-> GetOr(a.payload, "hidden_by", User)], a.id)

\* 908-917: the step create_area records once area_create has returned res.
Noted(a, res) ==
    IF a.type = "create_area"
    THEN <<[type |-> "note", area_id |-> NewAreaId(res), name |-> a.payload.name]>>
    ELSE <<>>

-----------------------------------------------------------------------------
(* rollback(): engine.py 1056-1094. *)

\* The steps taken in recorded order instead of reversed.
RollbackOrder_Forward(steps) == [i \in 1..Len(steps) |-> i]

\* reversed(steps), as the list of positions visited.
RollbackOrder(steps) == Reverse([i \in 1..Len(steps) |-> i])

\* {k: v for k, v in before.items() if v is not None}
Clean(before) ==
    LET K == {k \in DOMAIN before : before[k] # None}
    IN  [k \in K |-> before[k]]

\* Every step filtered like an area step: a null prior value is not sent.
RollbackCall_DropNull(st) ==
    LET id == IF st.type = "entity_update" THEN st.entity_id
              ELSE IF st.type = "device_update" THEN st.device_id
              ELSE IF st.type = "area_update" THEN st.area_id ELSE None
    IN  IF st.type \in {"entity_update", "device_update", "area_update"}
           /\ DOMAIN Clean(st.before) # {}
        THEN <<Call(st.type, id, Clean(st.before), None)>>
        ELSE <<>>

\* The call one step re-issues, as a list of zero or one call.
RollbackCall(st) ==
    IF st.type = "entity_update"
    THEN <<Call("entity_update", st.entity_id, st.before, None)>>
    ELSE IF st.type = "device_update"
    THEN <<Call("device_update", st.device_id, st.before, None)>>
    ELSE IF st.type = "area_update"
    THEN IF DOMAIN Clean(st.before) # {}
         THEN <<Call("area_update", st.area_id, Clean(st.before), None)>>
         ELSE <<>>
    ELSE <<>>

\* One pass of the loop over reversed(steps) up to the call it awaits
\* (1071-1090): the request, and what is added to reverted without a call
\* (an area step with nothing to restore counts, 1086-1090).
RollbackOne(st) ==
    LET cs == RollbackCall(st)
        counts == st.type \in {"entity_update", "device_update", "area_update"}
    IN  [calls |-> cs, reverted |-> IF counts /\ cs = <<>> THEN 1 ELSE 0]


-----------------------------------------------------------------------------
(* plan(): engine.py 261-813.  The passes run in the order of the code over
   the lists of the snapshot; each takes and returns the planner's
   accumulators: the actions emitted so far and the sets planned_entity_area,
   planned_entity_remove, planned_entity_hide, with needs_fallback_onbekend.
   The entries of the rules are mappings and the ids strings. *)

\* A for loop over the list s: Op is the body, acc the accumulators.
RECURSIVE Fold(_, _, _)
Fold(Op(_, _), acc, s) ==
    IF s = <<>> THEN acc ELSE Fold(Op, Op(acc, Head(s)), Tail(s))

\* The configured name of the fallback area (dependencies.py 115).
onbekend_area_name == <<"O", "n", "b", "e", "k", "e", "n", "d">>

\* An Action before its id is drawn.  A reason is kept as its format string
\* and the values formatted into it; a confidence is kept in hundredths.
Reason(fmt, args) == [fmt |-> fmt, args |-> args]

Act(type, payload, reason, confidence, requires_approval) ==
    [type |-> type, payload |-> payload, reason |-> reason,
     confidence |-> confidence, requires_approval |-> requires_approval]

NoActions ==
    [actions |-> <<>>, area |-> {}, remove |-> {}, hide |-> {}, needs |-> FALSE]

Emit(st, a) == [st EXCEPT !.actions = Append(@, a)]

\* 18-24
IsActiveState(found) ==
    /\ found # <<>>
    /\ Get(found[1], "state") # None
    /\ Get(found[1], "state") # <<"u", "n", "a", "v", "a", "i", "l", "a", "b", "l", "e">>

IsActive(snap, entity_id) == IsActiveState(Lookup(snap.states, "entity_id", entity_id))

\* device_by_id.get(device_id, {}).get("area_id")
DeviceArea(snap, device_id) == BeforeGet(Lookup(snap.devices, "id", device_id), "area_id")

\* 27-38
EffectiveAreaId(snap, er) ==
    IF Truthy(Get(er, "area_id")) THEN er.area_id
    ELSE IF Falsy(Get(er, "device_id")) THEN None
    ELSE DeviceArea(snap, er.device_id)

\* 331
EntityIds(snap) ==
    {snap.entities[i].entity_id : i \in {j \in 1..Len(snap.entities) :
                                          Truthy(Get(snap.entities[j], "entity_id"))}}

\* 270-278: area_tokens, with area_names and area_name_by_id.
NamedAreas(snap) ==
    SelectSeq(snap.areas, LAMBDA a : Truthy(Get(a, "area_id")) /\ Truthy(Get(a, "name")))

\* 294-299 with the lookups of 310-311.
AreasByNameCi(snap, key) ==
    SelectSeq(snap.areas,
              LAMBDA a : Truthy(Get(a, "name")) /\ Lower(Strip(a.name)) = key)

\* 301-328, one rule.
AreaRenameRule(snap, st, r) ==
    LET src == Strip(StrOrEmpty(Get(r, "from")))
        dst == Strip(StrOrEmpty(Get(r, "to")))
        req == GetOr(r, "requires_approval", TRUE)
        src_areas == AreasByNameCi(snap, Lower(src))
        dst_areas == AreasByNameCi(snap, Lower(dst))
    IN  IF src = <<>> \/ dst = <<>> \/ src = dst THEN st
        ELSE IF Len(src_areas) # 1 THEN st
        ELSE IF Len(dst_areas) # 0 THEN st
        ELSE IF Falsy(Get(src_areas[1], "area_id")) THEN st
        ELSE Emit(st, Act("rename_area",
                          [area_id |-> src_areas[1].area_id, name |-> dst],
                          Reason("Rule: rename area '{src}' -> '{dst}'.", <<src, dst>>),
                          90, req))

AreaRenames(snap, ruleset, st) ==
    Fold(LAMBDA s, r : AreaRenameRule(snap, s, r), st, GetOr(ruleset, "area_renames", <<>>))

\* 333-348, one id.
RemoveId(snap, st, eid) ==
    IF eid \in EntityIds(snap) /\ eid \notin st.remove
    THEN [Emit(st, Act("remove_entity_registry_entry", [entity_id |-> eid],
                       Reason("Rule: explicit entity removal.", <<>>), 100, TRUE))
            EXCEPT !.remove = @ \cup {eid}]
    ELSE st

\* 358-372, one entity id under one compiled pattern.
RemoveMatch(st, pat, req, eid) ==
    IF eid \in st.remove THEN st
    ELSE IF RegexSearch(pat, eid)
    THEN [Emit(st, Act("remove_entity_registry_entry", [entity_id |-> eid],
                       Reason("Rule: entity_id matches /{pat}/.", <<pat>>), 95, req))
            EXCEPT !.remove = @ \cup {eid}]
    ELSE st

\* 350-372, one rule.
RemoveRegex(snap, st, rr) ==
    LET pat == StrOrEmpty(Get(rr, "pattern"))
        req == GetOr(rr, "requires_approval", TRUE)
    IN  IF ~RegexCompiles(pat) THEN st
        ELSE Fold(LAMBDA s, eid : RemoveMatch(s, pat, req, eid), st,
                  SortedStrs(EntityIds(snap)))

\* 333-372
EntityRemove(snap, ruleset, st) ==
    LET erem == GetOr(ruleset, "entity_remove", <<>>)
        s1 == Fold(LAMBDA s, eid : RemoveId(snap, s, eid), st, GetOr(erem, "ids", <<>>))
    IN  Fold(LAMBDA s, rr : RemoveRegex(snap, s, rr), s1, GetOr(erem, "regex", <<>>))

\* 375-389, one id.
HideId(snap, st, eid) ==
    IF eid \in EntityIds(snap) /\ eid \notin st.hide
    THEN [Emit(st, Act("hide_entity", [entity_id |-> eid, hidden_by |-> User],
                       Reason("Rule: explicit entity hide.", <<>>), 100, TRUE))
            EXCEPT !.hide = @ \cup {eid}]
    ELSE st

\* 399-413, one entity id under one compiled pattern.
HideMatch(st, pat, req, eid) ==
    IF eid \in st.hide THEN st
    ELSE IF RegexSearch(pat, eid)
    THEN [Emit(st, Act("hide_entity", [entity_id |-> eid, hidden_by |-> User],
                       Reason("Rule: entity_id matches /{pat}/.", <<pat>>), 95, req))
            EXCEPT !.hide = @ \cup {eid}]
    ELSE st

\* 391-413, one rule.
HideRegex(snap, st, rr) ==
    LET pat == StrOrEmpty(Get(rr, "pattern"))
        req == GetOr(rr, "requires_approval", TRUE)
    IN  IF ~RegexCompiles(pat) THEN st
        ELSE Fold(LAMBDA s, eid : HideMatch(s, pat, req, eid), st,
                  SortedStrs(EntityIds(snap)))

\* 374-413
EntityHide(snap, ruleset, st) ==
    LET ehide == GetOr(ruleset, "entity_hide", <<>>)
        s1 == Fold(LAMBDA s, eid : HideId(snap, s, eid), st, GetOr(ehide, "ids", <<>>))
    IN  Fold(LAMBDA s, rr : HideRegex(snap, s, rr), s1, GetOr(ehide, "regex", <<>>))

\* 416-443, one entity.
InheritArea(snap, st, er) ==
    LET entity_id == Get(er, "entity_id")
        device_id == Get(er, "device_id")
    IN  IF Falsy(entity_id) THEN st
        ELSE IF entity_id \in st.remove THEN st
        ELSE IF ~IsActive(snap, entity_id) THEN st
        ELSE IF Truthy(Get(er, "area_id")) THEN st
        ELSE IF Falsy(device_id) THEN st
        ELSE IF Falsy(DeviceArea(snap, device_id)) THEN st
        ELSE [Emit(st, Act("set_entity_area",
                           [entity_id |-> entity_id,
                            area_id |-> DeviceArea(snap, device_id)],
                           Reason("Entity has no area_id; device has area_id, so entity can inherit deterministically.", <<>>),
                           100, FALSE))
                EXCEPT !.area = @ \cup {entity_id}]

\* The explicit areas of all entities linked to a device, active or not.
LinkedAreas_Inactive(snap, device_id) ==
    {snap.entities[i].area_id :
        i \in {j \in 1..Len(snap.entities) :
                 LET er == snap.entities[j]
                 IN  /\ Truthy(Get(er, "device_id")) /\ er.device_id = device_id
                     /\ Truthy(Get(er, "entity_id"))
                     /\ Truthy(Get(er, "area_id"))}}

\* 450-461: the explicit areas of the active entities linked to a device.
LinkedAreas(snap, device_id) ==
    {snap.entities[i].area_id :
        i \in {j \in 1..Len(snap.entities) :
                 LET er == snap.entities[j]
                 IN  /\ Truthy(Get(er, "device_id")) /\ er.device_id = device_id
                     /\ Truthy(Get(er, "entity_id"))
                     /\ IsActive(snap, er.entity_id)
                     /\ Truthy(Get(er, "area_id"))}}

\* next(iter(s)): the element a set of strings yields first depends on the
\* hash seed of the process; seed chooses among the orders.
FirstOf(s, seed) ==
    LET sorted == SortedStrs(s)
    IN  IF seed = "up" THEN sorted[1] ELSE sorted[Len(sorted)]

\* A backfill that takes the first of any number of areas.
BackfillArea_AnyLinked(effective_area_ids, seed) ==
    IF Cardinality(effective_area_ids) >= 1
    THEN <<FirstOf(effective_area_ids, seed)>>
    ELSE <<>>

\* 462-463: the areas a device is backfilled with (none or one).
BackfillArea(effective_area_ids, seed) ==
    IF Cardinality(effective_area_ids) = 1
    THEN <<FirstOf(effective_area_ids, seed)>>
    ELSE <<>>

\* 446-473, one device.
DeviceBackfill(snap, seed, st, dv) ==
    LET device_id == Get(dv, "id")
        chosen == BackfillArea(LinkedAreas(snap, device_id), seed)
    IN  IF Falsy(device_id) \/ Truthy(Get(dv, "area_id")) THEN st
        ELSE IF chosen = <<>> THEN st
        ELSE Emit(st, Act("set_device_area",
                          [device_id |-> device_id, area_id |-> chosen[1]],
                          Reason("Device has no area_id; all linked active entities have exactly 1 explicit area_id.", <<>>),
                          98, FALSE))

\* 495-502
Haystack(er, found) ==
    Join(<< er.entity_id, StrOrEmpty(Get(er, "name")),
            StrOrEmpty(Get(er, "original_name")),
            StrOrEmpty(Get(found[1], "friendly_name")) >>)

\* Candidates that share any token with the haystack.
TokenMatches_AnyToken(snap, ht) ==
    SelectSeq(NamedAreas(snap), LAMBDA a : tokenize(a.name) \cap ht # {})

\* 504-507
TokenMatches(snap, ht) ==
    SelectSeq(NamedAreas(snap),
              LAMBDA a : tokenize(a.name) # {} /\ tokenize(a.name) \subseteq ht)

\* 478-522, one entity.
TokenMatch(snap, include_onbekend_fallback, st, er) ==
    LET entity_id == Get(er, "entity_id")
        device_id == Get(er, "device_id")
        found == Lookup(snap.states, "entity_id", entity_id)
        matches == TokenMatches(snap, tokenize(Haystack(er, found)))
    IN  IF Falsy(entity_id) THEN st
        ELSE IF entity_id \in st.area THEN st
        ELSE IF entity_id \in st.remove THEN st
        ELSE IF ~IsActiveState(found) THEN st
        ELSE IF Truthy(Get(er, "area_id")) THEN st
        ELSE IF Truthy(device_id) /\ Truthy(DeviceArea(snap, device_id)) THEN st
        ELSE IF Len(matches) = 1
        THEN [Emit(st, Act("set_entity_area",
                           [entity_id |-> entity_id, area_id |-> matches[1].area_id],
                           Reason("Token match to area name '{area_name}' from entity metadata.",
                                  <<matches[1].name>>),
                           95, FALSE))
                EXCEPT !.area = @ \cup {entity_id}]
        ELSE IF include_onbekend_fallback THEN [st EXCEPT !.needs = TRUE]
        ELSE st

\* 524-538
CreateFallbackArea(snap, include_onbekend_fallback, st) ==
    LET named == NamedAreas(snap)
        area_names == {named[i].name : i \in 1..Len(named)}
    IN  IF include_onbekend_fallback /\ st.needs /\ onbekend_area_name \notin area_names
        THEN Emit(st, Act("create_area", [name |-> onbekend_area_name],
                          Reason("Fallback area requested to ensure everything has an effective area.", <<>>),
                          60, TRUE))
        ELSE st

\* 542-546
OnbekendAreaId(snap) ==
    LET S == {i \in 1..Len(snap.areas) : Get(snap.areas[i], "name") = onbekend_area_name}
    IN  IF S = {} THEN None
        ELSE Get(snap.areas[CHOOSE i \in S : \A j \in S : i <= j], "area_id")

\* 548-571, one entity.
FallbackPlace(snap, st, er) ==
    LET entity_id == Get(er, "entity_id")
    IN  IF Falsy(entity_id) THEN st
        ELSE IF entity_id \in st.area THEN st
        ELSE IF entity_id \in st.remove THEN st
        ELSE IF ~IsActive(snap, entity_id) THEN st
        ELSE IF Truthy(EffectiveAreaId(snap, er)) THEN st
        ELSE [Emit(st, Act("set_entity_area",
                           [entity_id |-> entity_id, area_id |-> OnbekendAreaId(snap)],
                           Reason("Fallback: put entity into area '{onbekend_area_name}'.",
                                  <<onbekend_area_name>>),
                           60, TRUE))
                EXCEPT !.area = @ \cup {entity_id}]

\* 541-571
FallbackPlacement(snap, include_onbekend_fallback, st) ==
    IF include_onbekend_fallback /\ Truthy(OnbekendAreaId(snap))
    THEN Fold(LAMBDA s, er : FallbackPlace(snap, s, er), st, snap.entities)
    ELSE st

\* 574-593, one entity.
SuffixDuplicate_Unchecked(snap, st, er) ==
    LET entity_id == Get(er, "entity_id")
        dup == is_suffix_duplicate_entity(entity_id)
    IN  IF Falsy(entity_id) THEN st
        ELSE IF ~dup[1] \/ dup[2] \notin EntityIds(snap) THEN st
        ELSE [Emit(st, Act("remove_entity_registry_entry", [entity_id |-> entity_id],
                           Reason("Entity id looks like a suffix duplicate of '{base}'.",
                                  <<dup[2]>>),
                           90, TRUE))
                EXCEPT !.remove = @ \cup {entity_id}]

SuffixDuplicate(snap, st, er) ==
    LET entity_id == Get(er, "entity_id")
        dup == is_suffix_duplicate_entity(entity_id)
    IN  IF Falsy(entity_id) THEN st
        ELSE IF entity_id \in st.remove THEN st
        ELSE IF ~dup[1] \/ dup[2] \notin EntityIds(snap) THEN st
        ELSE [Emit(st, Act("remove_entity_registry_entry", [entity_id |-> entity_id],
                           Reason("Entity id looks like a suffix duplicate of '{base}'.",
                                  <<dup[2]>>),
                           90, TRUE))
                EXCEPT !.remove = @ \cup {entity_id}]

\* sorted(xs) for a list of strings.
RECURSIVE InsertStr(_, _)
InsertStr(x, s) ==
    IF s = <<>> THEN <<x>>
    ELSE IF StrLess(x, Head(s)) THEN <<x>> \o s
    ELSE <<Head(s)>> \o InsertStr(x, Tail(s))

Sorted(xs) == Fold(LAMBDA acc, x : InsertStr(x, acc), <<>>, xs)

\* 596-601: the entities that carry both ids, and the keys of by_unique_id in
\* the order a dict keeps them (first insertion).
WithUniqueId(snap) ==
    SelectSeq(snap.entities,
              LAMBDA er : Truthy(Get(er, "unique_id")) /\ Truthy(Get(er, "entity_id")))

FirstSeen(keys) ==
    Fold(LAMBDA acc, k : IF \E i \in 1..Len(acc) : acc[i] = k THEN acc ELSE Append(acc, k),
         <<>>, keys)

\* 606-619, one member of a group.
HideDuplicate(st, uid, kept, eid) ==
    IF eid \in st.hide \/ eid \in st.remove THEN st
    ELSE [Emit(st, Act("hide_entity", [entity_id |-> eid, hidden_by |-> User],
                       Reason("Duplicate unique_id '{uid}'. Keeping '{kept}', hiding '{eid}'.",
                              <<uid, kept, eid>>),
                       90, TRUE))
            EXCEPT !.hide = @ \cup {eid}]

\* A pass that keeps no member of a group.
UniqueIdGroup_HideAll(snap, st, uid) ==
    LET members == SelectSeq(WithUniqueId(snap), LAMBDA er : er.unique_id = uid)
        eids == Sorted([i \in 1..Len(members) |-> members[i].entity_id])
    IN  IF Len(eids) <= 1 THEN st
        ELSE Fold(LAMBDA s, eid : HideDuplicate(s, uid, eids[1], eid), st, eids)

\* 602-619, one unique_id.
UniqueIdGroup(snap, st, uid) ==
    LET members == SelectSeq(WithUniqueId(snap), LAMBDA er : er.unique_id = uid)
        eids == Sorted([i \in 1..Len(members) |-> members[i].entity_id])
    IN  IF Len(eids) <= 1 THEN st
        ELSE Fold(LAMBDA s, eid : HideDuplicate(s, uid, eids[1], eid), st, Tail(eids))

\* 596-619
UniqueIdDuplicates(snap, st) ==
    LET ers == WithUniqueId(snap)
    IN  Fold(LAMBDA s, uid : UniqueIdGroup(snap, s, uid), st,
             FirstSeen([i \in 1..Len(ers) |-> ers[i].unique_id]))

\* 621-625 with .get(key)
AreaIdByNameLower(snap, key) ==
    LET S == {i \in 1..Len(snap.areas) :
                /\ Truthy(Get(snap.areas[i], "name"))
                /\ Truthy(Get(snap.areas[i], "area_id"))
                /\ Lower(Strip(snap.areas[i].name)) = key}
    IN  IF S = {} THEN None ELSE snap.areas[CHOOSE i \in S : \A j \in S : j <= i].area_id

\* 643-665, one entity under one rule.
EntityAreaMatch(snap, st, pat, area_name, req, overwrite, target_area_id, er) ==
    LET entity_id == StrOrEmpty(Get(er, "entity_id"))
    IN  IF entity_id = <<>> \/ entity_id \in st.remove THEN st
        ELSE IF ~IsActive(snap, entity_id) THEN st
        ELSE IF ~overwrite /\ (Truthy(EffectiveAreaId(snap, er)) \/ entity_id \in st.area)
        THEN st
        ELSE IF RegexSearch(pat, entity_id)
        THEN [Emit(st, Act("set_entity_area",
                           [entity_id |-> entity_id, area_id |-> target_area_id],
                           Reason("Rule: entity_id matches /{pat}/ -> area '{area_name}'.",
                                  <<pat, area_name>>),
                           90, req))
                EXCEPT !.area = @ \cup {entity_id}]
        ELSE st

\* 628-665, one rule.
EntityAreaRule(snap, st, rr) ==
    LET pat == StrOrEmpty(Get(rr, "pattern"))
        area_name == Strip(StrOrEmpty(Get(rr, "area")))
        req == GetOr(rr, "requires_approval", TRUE)
        overwrite == GetOr(rr, "overwrite", FALSE)
        target_area_id == AreaIdByNameLower(snap, Lower(area_name))
    IN  IF pat = <<>> \/ area_name = <<>> THEN st
        ELSE IF ~RegexCompiles(pat) THEN st
        ELSE IF Falsy(target_area_id) THEN st
        ELSE Fold(LAMBDA s, er : EntityAreaMatch(snap, s, pat, area_name, req, overwrite,
                                                 target_area_id, er),
                  st, snap.entities)

\* 683-702, one device under one rule.
DeviceAreaMatch(st, pat, area_name, req, overwrite, target_area_id, dv) ==
    LET device_id == Get(dv, "id")
        name == StrOrEmpty(Or2(Get(dv, "name_by_user"), Get(dv, "name")))
    IN  IF Falsy(device_id) THEN st
        ELSE IF Truthy(Get(dv, "area_id")) /\ ~overwrite THEN st
        ELSE IF name = <<>> THEN st
        ELSE IF RegexSearch(pat, name)
        THEN Emit(st, Act("set_device_area",
                          [device_id |-> device_id, area_id |-> target_area_id],
                          Reason("Rule: device name matches /{pat}/ -> area '{area_name}'.",
                                 <<pat, area_name>>),
                          90, req))
        ELSE st

\* 668-702, one rule.
DeviceAreaRule(snap, st, rr) ==
    LET pat == StrOrEmpty(Get(rr, "pattern"))
        area_name == Strip(StrOrEmpty(Get(rr, "area")))
        req == GetOr(rr, "requires_approval", TRUE)
        overwrite == GetOr(rr, "overwrite", FALSE)
        target_area_id == AreaIdByNameLower(snap, Lower(area_name))
    IN  IF pat = <<>> \/ area_name = <<>> THEN st
        ELSE IF ~RegexCompiles(pat) THEN st
        ELSE IF Falsy(target_area_id) THEN st
        ELSE Fold(LAMBDA s, dv : DeviceAreaMatch(s, pat, area_name, req, overwrite,
                                                 target_area_id, dv),
                  st, snap.devices)

\* 727-741: whether a helper rule yields an action for an entity's tokens.
HelperRuleMatches(snap, tokens, hr) ==
    LET area_name == Strip(StrOrEmpty(Get(hr, "area")))
        kws_raw == GetOr(hr, "keywords", <<>>)
        kws == {Lower(Strip(kws_raw[i])) :
                  i \in {j \in 1..Len(kws_raw) : Strip(kws_raw[j]) # <<>>}}
    IN  /\ area_name # <<>>
        /\ kws # {}
        /\ kws \cap tokens # {}
        /\ Truthy(AreaIdByNameLower(snap, Lower(Strip(area_name))))

\* 706-752, one entity: the first rule that matches yields the action.
HelperArea(snap, ruleset, st, er) ==
    LET entity_id == StrOrEmpty(Get(er, "entity_id"))
        tokens == tokenize(entity_id \o <<" ">> \o StrOrEmpty(Get(er, "original_name"))
                           \o <<" ">> \o StrOrEmpty(Get(er, "name")))
        hits == SelectSeq(GetOr(ruleset, "helper_area_rules", <<>>),
                          LAMBDA hr : HelperRuleMatches(snap, tokens, hr))
        area_name == Strip(StrOrEmpty(Get(hits[1], "area")))
    IN  IF ~IsActive(snap, entity_id) THEN st
        ELSE IF entity_id = <<>> THEN st
        ELSE IF entity_id \in st.area THEN st
        ELSE IF Truthy(EffectiveAreaId(snap, er)) THEN st
        ELSE IF hits = <<>> THEN st
        ELSE Emit(st, Act("set_entity_area",
                          [entity_id |-> entity_id,
                           area_id |-> AreaIdByNameLower(snap, Lower(Strip(area_name)))],
                          Reason("Rule: keyword match suggests area '{area_name}'.",
                                 <<area_name>>),
                          85, GetOr(hits[1], "requires_approval", TRUE)))

\* 41-42
normalize_name(s) == Lower(Strip(StrOrEmpty(s)))

\* 45-64
GenericMediaNames ==
    { <<"t", "v">>, <<"s", "p", "e", "a", "k", "e", "r">>, <<"s", "p", "e", "a", "k", "e", "r", "s">>, <<"c", "h", "r", "o", "m", "e", "c", "a", "s", "t">>, <<"g", "o", "o", "g", "l", "e", " ", "c", "a", "s", "t">>,
      <<"g", "o", "o", "g", "l", "e", " ", "h", "o", "m", "e">>, <<"m", "e", "d", "i", "a", " ", "p", "l", "a", "y", "e", "r">>, <<"m", "e", "d", "i", "a", "p", "l", "a", "y", "e", "r">>, <<"n", "e", "s", "t", " ", "a", "u", "d", "i", "o">>,
      <<"n", "e", "s", "t", " ", "m", "i", "n", "i">>, <<"h", "o", "m", "e">>, <<"d", "e", "f", "a", "u", "l", "t">>, <<"u", "n", "k", "n", "o", "w", "n">> }

looks_generic_media_name(name) ==
    LET n == normalize_name(name)
    IN  n = <<>> \/ n \in GenericMediaNames \/ StartsWith(n, <<"m", "e", "d", "i", "a", " ", "p", "l", "a", "y", "e", "r">>)

\* 67-77
media_base_label(entity_id, friendly) ==
    LET hay == normalize_name(entity_id) \o <<" ">> \o normalize_name(friendly)
    IN  IF Contains(hay, <<"t", "v">>) THEN <<"T", "V">>
        ELSE IF Contains(hay, <<"s", "p", "e", "a", "k", "e", "r">>) \/ Contains(hay, <<"s", "o", "n", "o", "s">>)
                \/ Contains(hay, <<"n", "e", "s", "t">>) THEN <<"S", "p", "e", "a", "k", "e", "r">>
        ELSE IF Contains(hay, <<"b", "e", "a", "m", "e", "r">>) \/ Contains(hay, <<"p", "r", "o", "j", "e", "c", "t", "o", "r">>) THEN <<"B", "e", "a", "m", "e", "r">>
        ELSE <<"M", "e", "d", "i", "a">>

\* 766-770
MediaCurrent(snap, er) ==
    Or2(Get(er, "name"),
        Or2(Get(er, "original_name"),
            StrOrEmpty(Get(Lookup(snap.states, "entity_id", er.entity_id)[1],
                           "friendly_name"))))

\* 756-774, one entity.
MediaCandidate(snap, cands, er) ==
    LET entity_id == Get(er, "entity_id")
        current == MediaCurrent(snap, er)
    IN  IF Falsy(entity_id) \/ ~StartsWith(entity_id, <<"m", "e", "d", "i", "a", "_", "p", "l", "a", "y", "e", "r", ".">>) THEN cands
        ELSE IF ~IsActive(snap, entity_id) THEN cands
        ELSE IF Falsy(EffectiveAreaId(snap, er)) THEN cands
        ELSE IF ~looks_generic_media_name(current) THEN cands
        ELSE Append(cands, [area_id |-> EffectiveAreaId(snap, er),
                            base |-> media_base_label(entity_id, current),
                            entity_id |-> entity_id, current |-> current])

\* sorted(items, key=entity id): stable.
RECURSIVE InsertItem(_, _)
InsertItem(x, s) ==
    IF s = <<>> THEN <<x>>
    ELSE IF StrLess(x.entity_id, Head(s).entity_id) THEN <<x>> \o s
    ELSE <<Head(s)>> \o InsertItem(x, Tail(s))

\* 783: area_name_by_id.get(area_id) or area_id
AreaNameOrId(snap, area_id) ==
    Or2(BeforeGet(Lookup(NamedAreas(snap), "area_id", area_id), "name"), area_id)

\* 786
MediaNewName(base, area_name, idx, need_numbers) ==
    base \o <<" ">> \o area_name \o (IF need_numbers THEN <<" ">> \o Itoa(idx) ELSE <<>>)

\* A group numbered in the order of the registry listing.
MediaGroup_Unsorted(snap, cands, st, key) ==
    LET items == SelectSeq(cands, LAMBDA c : <<c.area_id, c.base>> = key)
        area_name == AreaNameOrId(snap, key[1])
        need_numbers == Len(items) > 1
        NewName(idx) == MediaNewName(key[2], area_name, idx, need_numbers)
    IN  Fold(LAMBDA s, idx :
               Emit(s, Act("rename_entity",
                           [entity_id |-> items[idx].entity_id, name |-> NewName(idx)],
                           Reason("Generic media player name '{current}' -> '{new_name}' based on effective area.",
                                  <<items[idx].current, NewName(idx)>>),
                           80, TRUE)),
             st, [i \in 1..Len(items) |-> i])

\* 781-796, one group.
MediaGroup(snap, cands, st, key) ==
    LET items == SelectSeq(cands, LAMBDA c : <<c.area_id, c.base>> = key)
        items_sorted == Fold(LAMBDA acc, x : InsertItem(x, acc), <<>>, items)
        area_name == AreaNameOrId(snap, key[1])
        need_numbers == Len(items_sorted) > 1
        NewName(idx) == MediaNewName(key[2], area_name, idx, need_numbers)
    IN  Fold(LAMBDA s, idx :
               Emit(s, Act("rename_entity",
                           [entity_id |-> items_sorted[idx].entity_id, name |-> NewName(idx)],
                           Reason("Generic media player name '{current}' -> '{new_name}' based on effective area.",
                                  <<items_sorted[idx].current, NewName(idx)>>),
                           80, TRUE)),
             st, [i \in 1..Len(items_sorted) |-> i])

\* 755-796
MediaRenames(snap, st) ==
    LET cands == Fold(LAMBDA acc, er : MediaCandidate(snap, acc, er), <<>>, snap.entities)
    IN  Fold(LAMBDA s, key : MediaGroup(snap, cands, s, key), st,
             FirstSeen([i \in 1..Len(cands) |-> <<cands[i].area_id, cands[i].base>>]))

\* 288-796: the actions of a planning run, in the order they are appended.
Generate(snap, ruleset, include_onbekend_fallback, seed) ==
    LET s1 == AreaRenames(snap, ruleset, NoActions)
        s2 == EntityRemove(snap, ruleset, s1)
        s3 == EntityHide(snap, ruleset, s2)
        s4 == Fold(LAMBDA s, er : InheritArea(snap, s, er), s3, snap.entities)
        s5 == Fold(LAMBDA s, dv : DeviceBackfill(snap, seed, s, dv), s4, snap.devices)
        s6 == Fold(LAMBDA s, er : TokenMatch(snap, include_onbekend_fallback, s, er),
                   s5, snap.entities)
        s7 == CreateFallbackArea(snap, include_onbekend_fallback, s6)
        s8 == FallbackPlacement(snap, include_onbekend_fallback, s7)
        s9 == Fold(LAMBDA s, er : SuffixDuplicate(snap, s, er), s8, snap.entities)
        s10 == UniqueIdDuplicates(snap, s9)
        s11 == Fold(LAMBDA s, rr : EntityAreaRule(snap, s, rr), s10,
                    GetOr(ruleset, "entity_area", <<>>))
        s12 == Fold(LAMBDA s, rr : DeviceAreaRule(snap, s, rr), s11,
                    GetOr(ruleset, "device_area", <<>>))
        s13 == Fold(LAMBDA s, er : HelperArea(snap, ruleset, s, er), s12, snap.entities)
    IN  MediaRenames(snap, s13).actions

\* str(uuid.uuid4()): an id never drawn before, here the n-th one drawn.
Uuid(n) == <<"u">> \o Itoa(n)

\* 798 with model.py 28-36: the k-th generated action gets the k-th id drawn
\* in this run, after those already drawn.
AllActions(generated, already) ==
    [k \in 1..Len(generated) |->
        [id |-> Uuid(already + k), type |-> generated[k].type,
         payload |-> generated[k].payload, reason |-> generated[k].reason,
         confidence |-> generated[k].confidence,
         requires_approval |-> generated[k].requires_approval]]

\* The characters of an action type.
TypeStr(t) ==
    CASE t = "set_entity_area" -> <<"s", "e", "t", "_", "e", "n", "t", "i", "t", "y", "_", "a", "r", "e", "a">>
      [] t = "set_device_area" -> <<"s", "e", "t", "_", "d", "e", "v", "i", "c", "e", "_", "a", "r", "e", "a">>
      [] t = "rename_entity" -> <<"r", "e", "n", "a", "m", "e", "_", "e", "n", "t", "i", "t", "y">>
      [] t = "rename_device" -> <<"r", "e", "n", "a", "m", "e", "_", "d", "e", "v", "i", "c", "e">>
      [] t = "remove_entity_registry_entry" -> <<"r", "e", "m", "o", "v", "e", "_", "e", "n", "t", "i", "t", "y", "_", "r", "e", "g", "i", "s", "t", "r", "y", "_", "e", "n", "t", "r", "y">>
      [] t = "hide_entity" -> <<"h", "i", "d", "e", "_", "e", "n", "t", "i", "t", "y">>
      [] t = "rename_area" -> <<"r", "e", "n", "a", "m", "e", "_", "a", "r", "e", "a">>
      [] t = "create_area" -> <<"c", "r", "e", "a", "t", "e", "_", "a", "r", "e", "a">>
      [] t = "delete_area" -> <<"d", "e", "l", "e", "t", "e", "_", "a", "r", "e", "a">>
      [] OTHER -> <<>>

\* A fingerprint that looks at the area before the entity and the device.
action_fingerprint_AreaFirst(action) ==
    LET p == GetOr(action, "payload", <<>>)
        key == Or2(Get(p, "area_id"),
                   Or2(Get(p, "entity_id"),
                       Or2(Get(p, "device_id"), StrOrEmpty(Get(p, "name")))))
    IN  TypeStr(GetOr(action, "type", "")) \o <<":">> \o key

\* 835-840
action_fingerprint(action) ==
    LET p == GetOr(action, "payload", <<>>)
        key == Or2(Get(p, "entity_id"),
                   Or2(Get(p, "device_id"),
                       Or2(Get(p, "area_id"), StrOrEmpty(Get(p, "name")))))
    IN  TypeStr(GetOr(action, "type", "")) \o <<":">> \o key

\* A filter that drops nothing.
VisibleActions_KeepIgnored(all_actions, ignored) == all_actions

\* 801-802
VisibleActions(all_actions, ignored) ==
    SelectSeq(all_actions, LAMBDA a : action_fingerprint(a) \notin ignored)

\* 803
IgnoredCount(all_actions, visible_actions) == Len(all_actions) - Len(visible_actions)

\* 805-811: the plan document; created_at, the rules meta data and
\* area_name_by_id, which nothing reads back, are left out.
PlanDoc(all_actions, ignored) ==
    [actions |-> VisibleActions(all_actions, ignored),
     ignored_count |-> IgnoredCount(all_actions, VisibleActions(all_actions, ignored))]

-----------------------------------------------------------------------------
(* The apply/rollback state machine. *)

\* The registry the apply/rollback behaviours start from: an entity without
\* and one with area, name and hide fields, a device, two areas.
EntityRec(id, unique_id, name, original_name, device_id, area_id, hidden_by, disabled_by) ==
    [entity_id |-> id, unique_id |-> unique_id, name |-> name,
     original_name |-> original_name, device_id |-> device_id,
     area_id |-> area_id, hidden_by |-> hidden_by, disabled_by |-> disabled_by]

DeviceRec(id, name, name_by_user, area_id) ==
    [id |-> id, name |-> name, name_by_user |-> name_by_user, area_id |-> area_id]

AreaRec(area_id, name) == [area_id |-> area_id, name |-> name]

StateRec(entity_id, state, friendly_name) ==
    [entity_id |-> entity_id, state |-> state, friendly_name |-> friendly_name]

On == <<"o", "n">>

RegApply ==
    [areas |-> <<AreaRec(A1, NameA), AreaRec(A2, NameB)>>,
     devices |-> <<DeviceRec(D1, NameM, None, None)>>,
     entities |-> <<EntityRec(E1, None, None, None, D1, None, None, None),
                    EntityRec(E2, None, NameM, None, None, A1, None, User)>>,
     states |-> <<StateRec(E1, On, None), StateRec(E2, On, None)>>]

EmptyRules ==
    [area_renames |-> <<>>, entity_remove |-> [ids |-> <<>>, regex |-> <<>>],
     entity_hide |-> [ids |-> <<>>, regex |-> <<>>], entity_area |-> <<>>,
     device_area |-> <<>>, helper_area_rules |-> <<>>]

\* The actions a persisted plan is made of in the apply/rollback behaviours:
\* every type apply dispatches on, complete and incomplete payloads, an
\* unknown type, with and without required approval.
Shape(type, payload, requires_approval) ==
    [type |-> type, payload |-> payload, requires_approval |-> requires_approval]

ApplyShapes ==
    << Shape("set_entity_area", [entity_id |-> E1, area_id |-> A2], FALSE),
       Shape("hide_entity", [entity_id |-> E2], TRUE),
       Shape("remove_entity_registry_entry", [entity_id |-> E2], TRUE),
       Shape("rename_area", [area_id |-> A1, name |-> NameC], FALSE),
       Shape("create_area", [name |-> NameC], TRUE),
       Shape("set_entity_area", [entity_id |-> E1], FALSE),
       Shape("delete_area", [area_id |-> A1], FALSE) >>

\* The update-type actions: the same object twice, prior values that are
\* null (E1, D1) and that are not (E2).  None requires approval, so that
\* every one of them is applied.
UpdateShapes ==
    << Shape("set_entity_area", [entity_id |-> E1, area_id |-> A2], FALSE),
       Shape("set_entity_area", [entity_id |-> E1, area_id |-> A1], FALSE),
       Shape("set_device_area", [device_id |-> D1, area_id |-> A1], FALSE),
       Shape("rename_entity", [entity_id |-> E2, name |-> NameN], FALSE),
       Shape("rename_device", [device_id |-> D1, name |-> NameN], FALSE),
       Shape("rename_area", [area_id |-> A1, name |-> NameC], FALSE),
       Shape("hide_entity", [entity_id |-> E2, hidden_by |-> User], FALSE) >>

\* The id of the k-th action of a persisted plan.
ActionId(k) == <<"i", DigitChar(k)>>

MkAction(k, sh) ==
    [id |-> ActionId(k), type |-> sh.type, payload |-> sh.payload,
     requires_approval |-> sh.requires_approval]

\* The persisted plans: every list of at most MaxPlanLen of the shapes.
PlansOver(shapes) ==
    LET P == UNION {[1..n -> 1..Len(shapes)] : n \in 0..MaxPlanLen}
    IN  {[actions |-> [k \in 1..Len(p) |-> MkAction(k, shapes[p[k]])]] : p \in P}

\* A file that does not exist (load_plan, load_rollback return None).
NoFile == <<>>

\* A missing plan.json read as a plan without actions.
load_plan_Empty == IF planFile = NoFile THEN <<[actions |-> <<>>]>> ELSE planFile

\* 819-823: the persisted plan (NoFile for None).
load_plan == planFile

\* A missing rollback.json read as a record without steps.
load_rollback_Empty == IF rollbackFile = NoFile THEN <<[steps |-> <<>>]>> ELSE rollbackFile

\* 829-833: the persisted rollback record (NoFile for None).
load_rollback == rollbackFile

\* The listings a coroutine has fetched so far.
NoSnap == [areas |-> <<>>, devices |-> <<>>, entities |-> <<>>, states |-> <<>>]

NoLocals == [approved |-> {}, actions |-> <<>>, i |-> 0, steps |-> <<>>,
             applied |-> <<>>, skipped |-> <<>>, snap |-> NoSnap, fetched |-> 0,
             retry |-> FALSE]

NoRbLocals == [steps |-> <<>>, order |-> <<>>, k |-> 0, reverted |-> 0,
               errors |-> <<>>, visited |-> <<>>, failed |-> <<>>]

NoHist == [regBefore |-> <<>>, applyCalls |-> <<>>, phase |-> "none",
           accepted |-> TRUE, rollbackBefore |-> <<>>, found |-> FALSE,
           planAtStart |-> <<>>, handled |-> <<>>, last |-> "none", mixed |-> FALSE,
           store |-> [op |-> "none", fingerprints |-> {}, before |-> {},
                      prev_op |-> "none", prev_fingerprints |-> {}]]

PlanIds(plan) == {plan.actions[k].id : k \in 1..Len(plan.actions)}

NoPlanLocals == [snap |-> NoSnap, include_onbekend_fallback |-> FALSE, fetched |-> 0]

-----------------------------------------------------------------------------
(* The registry client, housekeeper/ha_ws.py.  The engine has one client   *)
(* (api/dependencies.py 78-93) and every handler that is being served      *)
(* calls it from its own coroutine; a coroutine runs until its next await. *)

\* The coroutines that call the client at the same time.
Tasks == {"a", "b"}

\* ha_ws.py 17-22: a new client holds no connection.  The token is empty
\* when the Supervisor gave none (dependencies.py 78-85).
NewClient(token) == [token |-> token, ws |-> <<>>, msg_id |-> 1]

\* A coroutine between two calls; todo are the calls it still makes, a
\* "send" for a registry wrapper (119-147), a "connect" for health()
\* (engine.py 109-114).  last is how its last call ended.
NoTask == [pc |-> "idle", todo |-> <<>>, conn |-> <<>>, raise |-> "none",
           last |-> "none"]

\* A coroutine of the engine between two calls: besides the above, the
\* request of its call (req), the connection the request was written to (on)
\* and the registry's answer to it (ans: empty while there is none, and when
\* the registry rejected the request).
NoIo == [pc |-> "idle", todo |-> <<>>, conn |-> <<>>, raise |-> "none",
         last |-> "none", req |-> <<>>, on |-> <<>>, ans |-> <<>>]

\* What a step of a call leaves: the client, the connections and the
\* coroutine that took it.
Left(cl, cs, me) == [client |-> cl, conns |-> cs, me |-> me]

\* The call returns or raises: how is "ok", "connection_error" (a
\* ConnectionError of connect), "timeout" or "ws_error" (the RuntimeErrors of
\* send).
Ended(me, how) ==
    [me EXCEPT !.pc = "idle", !.todo = Tail(@), !.conn = <<>>, !.raise = "none",
               !.last = how]

\* 31-43, up to the await of websockets.connect.
Opening(cl, cs, me) ==
    Left(cl, cs, IF cl.token THEN [me EXCEPT !.pc = "opening"]
                 ELSE Ended(me, "connection_error"))

\* close() is called on the connection n.
Closing(cs, n) == [cs EXCEPT ![n] = IF @ = "closed" THEN @ ELSE "closing"]

\* 79-83 (_close_ws), up to its await: close() is called on the connection
\* the client holds at this moment; without one nothing is awaited and the
\* caller raises at once.
CloseWs(cl, cs, me, how) ==
    IF cl.ws = <<>> THEN Left(cl, cs, Ended(me, how))
    ELSE Left(cl, Closing(cs, cl.ws[1]),
              [me EXCEPT !.pc = "closing", !.conn = cl.ws, !.raise = how])

\* "await self._ws.<method>(...)" inside a try block: the method is called on
\* the connection the client holds at this moment.  Without one the attribute
\* lookup on None raises, which the except branch of the block answers with
\* _close_ws and an error.
OnWs(cl, cs, me, next, how) ==
    IF cl.ws = <<>> THEN CloseWs(cl, cs, me, how)
    ELSE Left(cl, cs, [me EXCEPT !.pc = next, !.conn = cl.ws])

\* 90-96, up to the await of the connection's send.
Transmit(cl, cs, me) ==
    OnWs([cl EXCEPT !.msg_id = @ + 1], cs, me, "sending", "ws_error")

\* A coroutine starts a call: send (85-96) connects first when the client
\* holds no connection at this moment; connect (24-43) first closes the one
\* it holds.
CallBegins(me) ==
    IF client.ws = <<>> THEN {Opening(client, conns, me)}
    ELSE IF Head(me.todo) = "send" THEN {Transmit(client, conns, me)}
    ELSE {Left(client, Closing(conns, client.ws[1]),
               [me EXCEPT !.pc = "closing_old", !.conn = client.ws])}

\* connect() goes on after one of its awaits (24-77).  What the other side
\* does is open: a connection is made or not, a message is the expected one
\* or not, or nothing comes in time.  Only a connection nobody closed
\* delivers.  A failure closes the connection the client holds by then
\* (69-77).
ConnectSteps(me) ==
    (IF me.pc = "closing_old"                                      \* 28-43
     THEN {Opening([client EXCEPT !.ws = <<>>],
                   [conns EXCEPT ![me.conn[1]] = "closed"], me)}
     ELSE {})
    \cup
    (IF me.pc = "opening" /\ Len(conns) < MaxConns                 \* 40-46
     THEN {Left([client EXCEPT !.ws = <<Len(conns) + 1>>], Append(conns, "open"),
                [me EXCEPT !.pc = "auth_required", !.conn = <<Len(conns) + 1>>])}
     ELSE {})
    \cup
    (IF me.pc = "auth_required" /\ conns[me.conn[1]] = "open"      \* 46-59
     THEN {OnWs(client, conns, me, "auth_send", "connection_error")}
     ELSE {})
    \cup
    (IF me.pc = "auth_send" /\ conns[me.conn[1]] = "open"          \* 52-62
     THEN {OnWs(client, conns, me, "auth_resp", "connection_error")}
     ELSE {})
    \cup
    (IF me.pc = "auth_resp" /\ conns[me.conn[1]] = "open"          \* 62-67, 88-96
     THEN {IF Head(me.todo) = "connect" THEN Left(client, conns, Ended(me, "ok"))
           ELSE Transmit(client, conns, me)}
     ELSE {})
    \cup
    (IF me.pc \in {"opening", "auth_required", "auth_send", "auth_resp"}
     THEN {CloseWs(client, conns, me, "connection_error")}         \* 69-77
     ELSE {})

\* 82-83: close() has returned; the client forgets the connection it holds,
\* and the caller of _close_ws raises.
CloseSteps(me) ==
    IF me.pc = "closing"
    THEN {Left([client EXCEPT !.ws = <<>>], [conns EXCEPT ![me.conn[1]] = "closed"],
               Ended(me, me.raise))}
    ELSE {}

\* send() goes on after one of its awaits (96-116).  After a message that is
\* not the result of this request the loop awaits the next one, on the
\* connection the client holds by then (99-110).  An error result raises
\* inside the try block and is answered as a lost connection is (113-116).
SendSteps(me) ==
    (IF me.pc = "sending" /\ conns[me.conn[1]] = "open"            \* 96-100
     THEN {OnWs(client, conns, me, "receiving", "ws_error")}
     ELSE {})
    \cup
    (IF me.pc = "receiving" /\ conns[me.conn[1]] = "open"
     THEN {Left(client, conns, Ended(me, "ok")),                   \* 100-105
           OnWs(client, conns, me, "receiving", "ws_error")}       \* 100-103, 110
     ELSE {})
    \cup
    (IF me.pc = "receiving"                                        \* 111-112
     THEN {Left(client, conns, Ended(me, "timeout"))}
     ELSE {})
    \cup
    (IF me.pc \in {"sending", "receiving"}                         \* 106-109, 113-116
     THEN {CloseWs(client, conns, me, "ws_error")}
     ELSE {})

\* While the engine's operations are looked at, no other coroutine calls the
\* client.
ClientIdle ==
    /\ client = NewClient(TRUE)
    /\ conns = <<>>
    /\ task = [t \in Tasks |-> NoTask]


\* How many operations a behaviour starts: ops applies and rollbacks, pops
\* requests to the planner and the ignore store, total of both; and how many
\* of them are served at a time (tasks); and how many times the network or
\* Home Assistant fails a call that could have gone on (faults).
Limits(opsLim, popsLim, totalLim, tasksLim, faultsLim) ==
    [ops |-> opsLim, pops |-> popsLim, total |-> totalLim, tasks |-> tasksLim,
     faults |-> faultsLim]

\* The part of the initial state all behaviours share.
InitRest(limits) ==
    /\ rollbackFile = NoFile
    /\ io = NoIo
    /\ waiting = <<>>
    /\ pc = "idle"
    /\ ap = NoLocals
    /\ rb = NoRbLocals
    /\ result = [op |-> "none", status |-> "none"]
    /\ calls = <<>>
    /\ hist = NoHist
    /\ ops = 0
    /\ pl = NoPlanLocals
    /\ drawn = 0
    /\ runs = <<>>
    /\ pops = 0
    /\ faults = 0
    /\ lim \in limits

\* The behaviours about apply and rollback start with a persisted plan or
\* without one, and with the approvals the caller sends.
InitFiles(shapes, anyApproval) ==
    /\ reg = RegApply
    /\ rules = EmptyRules
    /\ \/ planFile = NoFile /\ approvedReq = {}
       \/ \E p \in PlansOver(shapes) :
            /\ planFile = <<p>>
            /\ approvedReq \in (IF anyApproval THEN SUBSET PlanIds(p) ELSE {{}})

\* They hold up to MaxOps applies and rollbacks, served one after the other
\* with up to two failures of the other side, or while one another waits,
\* over a plan of one action and with one failure; or one request to the
\* planner or the ignore store.
InitOver(shapes, anyApproval) ==
    /\ InitFiles(shapes, anyApproval)
    /\ ignoredFile = {}
    /\ InitRest({Limits(MaxOps, 0, MaxOps, 1, 2), Limits(MaxOps, 0, MaxOps, 2, 1),
                 Limits(0, 1, 1, 1, 1)})
    /\ IF lim.tasks = 1 \/ planFile = NoFile THEN TRUE
       ELSE Len(planFile[1].actions) <= 1
    /\ ClientIdle

Init == InitOver(ApplyShapes, TRUE)

InitUpd == InitOver(UpdateShapes, FALSE)

\* The fingerprints of a list of actions.
Fingerprints(actions) == {action_fingerprint(actions[k]) : k \in 1..Len(actions)}

\* The actions of the plans under which operations overlap: an area
\* assignment, an area renamed to the name the third creates, a removal.
MixedShapes ==
    << Shape("set_entity_area", [entity_id |-> E1, area_id |-> A2], FALSE),
       Shape("rename_area", [area_id |-> A1, name |-> NameC], FALSE),
       Shape("create_area", [name |-> NameC], TRUE),
       Shape("remove_entity_registry_entry", [entity_id |-> E2], TRUE) >>

\* The behaviours in which requests are served while others wait: an apply
\* or a rollback with one request to the planner or the ignore store, or two
\* requests about a plan that is already persisted, whose actions are all
\* ignored or none, or two applies and rollbacks of which one waits, or
\* three served one after the other.  The caller approves all actions of
\* the plan, or, where three are served one after the other, all or none,
\* so that apply skips every action of a plan of creations and removals.
InitMixed ==
    /\ InitFiles(MixedShapes, TRUE)
    /\ InitRest({Limits(1, 1, 2, 2, 0), Limits(1, 1, 2, 1, 1), Limits(0, 2, 2, 1, 0),
                 Limits(2, 0, 2, 2, 1), Limits(3, 0, 3, 1, 1)})
    /\ planFile # NoFile =>
          \/ approvedReq = PlanIds(planFile[1])
          \/ lim.ops = 3 /\ approvedReq = {}
    /\ ignoredFile \in (IF lim.ops = 0 /\ planFile # NoFile
                        THEN {{}, Fingerprints(planFile[1].actions)}
                        ELSE {{}})
    /\ ClientIdle

\* The registry and the rules the planning behaviours start from.  The
\* entities: one named after an area, two of a device that share a unique_id,
\* the second a suffix duplicate of the first, a media player without a name,
\* and one nothing places.
PE1 == EntityRec(<<"l", ".", "a">>, None, None, None, None, None, None, None)
PE2 == EntityRec(<<"s", ".", "t">>, <<"q">>, None, None, D1, A1, None, None)
PE3 == EntityRec(<<"s", ".", "t", "_", "2">>, <<"q">>, None, None, D1, A2, None, None)
PE4 == EntityRec(<<"m", "e", "d", "i", "a", "_", "p", "l", "a", "y", "e", "r", ".", "t", "v">>, None, None, None, None, A1, None, None)
PE5 == EntityRec(<<"s", ".", "x">>, None, None, None, None, None, None, None)

PlanEntities == <<PE1, PE2, PE3, PE4, PE5>>

\* The entity lists: the entities of PlanEntities at the positions S.
RECURSIVE Pick(_, _)
Pick(xs, S) ==
    IF S = {} THEN <<>>
    ELSE LET i == CHOOSE k \in S : \A m \in S : k <= m
         IN  <<xs[i]>> \o Pick(xs, S \ {i})

EntityLists ==
    {Pick(PlanEntities, S) :
        S \in {T \in SUBSET (1..Len(PlanEntities)) : Cardinality(T) <= MaxEntities}}

Unavailable == <<"u", "n", "a", "v", "a", "i", "l", "a", "b", "l", "e">>

\* The entities that may be unavailable: the second of the pair of the
\* device, when the pair is registered.
OffSets(entities) ==
    IF entities = <<PE2, PE3>> THEN {{}, {PE3.entity_id}} ELSE {{}}

RegPlan(entities, off) ==
    [areas |-> <<AreaRec(A1, NameA), AreaRec(A2, NameB)>>,
     devices |-> <<DeviceRec(D1, NameM, None, None)>>,
     entities |-> entities,
     states |-> [i \in 1..Len(entities) |->
                    StateRec(entities[i].entity_id,
                             IF entities[i].entity_id \in off THEN Unavailable ELSE On,
                             None)]]

RuleCatalogue ==
    << EmptyRules,
       [area_renames |-> << [from |-> NameA, to |-> NameC],
                            [from |-> NameB, to |-> NameC, requires_approval |-> FALSE],
                            [from |-> NameA, to |-> NameB] >>],
       [entity_remove |-> [ids |-> << <<"s", ".", "t">> >>, regex |-> <<>>],
        entity_hide |-> [ids |-> << <<"s", ".", "t">> >>, regex |-> <<>>]],
       [entity_remove |-> [regex |-> << [pattern |-> <<"^", "s">>, requires_approval |-> FALSE],
                                        [pattern |-> <<"(">>] >>],
        entity_hide |-> [regex |-> << [pattern |-> <<"T">>] >>]],
       [entity_remove |-> [ids |-> << <<"s", ".", "x">> >>],
        helper_area_rules |-> << [area |-> NameB, keywords |-> << <<"x">> >>] >>,
        entity_area |-> << [pattern |-> <<"^", "l">>, area |-> <<"b">>, overwrite |-> TRUE,
                            requires_approval |-> FALSE] >>,
        device_area |-> << [pattern |-> <<"m", "$">>, area |-> NameA] >>] >>

\* The ignore sets the planning behaviours start from.
IgnoreSets ==
    { {}, {<<"s", "e", "t", "_", "e", "n", "t", "i", "t", "y", "_", "a", "r", "e", "a", ":", "l", ".", "a">>, <<"h", "i", "d", "e", "_", "e", "n", "t", "i", "t", "y", ":", "s", ".", "t">>} }

\* The planning behaviours start without a persisted plan; they hold up to
\* MaxPlanOps requests to the planner and the ignore store, or one of them
\* with an apply and a rollback.  Where one request waits while another is
\* served, there are no rules and nothing is ignored.
InitPlan ==
    /\ \E es \in EntityLists : \E off \in OffSets(es) : reg = RegPlan(es, off)
    /\ \E i \in 1..Len(RuleCatalogue) : rules = RuleCatalogue[i]
    /\ planFile = NoFile
    /\ approvedReq = {}
    /\ ignoredFile \in IgnoreSets
    /\ InitRest({Limits(0, MaxPlanOps, MaxPlanOps, 1, 1), Limits(0, MaxPlanOps, MaxPlanOps, 2, 0),
                 Limits(2, 1, 3, 1, 0)})
    /\ lim.tasks > 1 => rules = EmptyRules /\ ignoredFile = {}
    /\ ClientIdle

\* 876: the actions of a plan, in a list that is walked from its first one.
PlanActions_Reversed(plan) == Reverse(plan.actions)

PlanActions(plan) == plan.actions

\* The coroutine that ran last, as it is kept while another one runs: its
\* position, its locals, its call of the client and what the history holds
\* about its operation.
OwnHistory == {"regBefore", "applyCalls", "accepted", "rollbackBefore", "found",
               "planAtStart", "handled"}

Fore == [pc |-> pc, ap |-> ap, rb |-> rb, pl |-> pl, calls |-> calls, io |-> io,
         own |-> [k \in OwnHistory |-> hist[k]]]

\* The coroutine that ran last has ended or stands at an await of the client:
\* only then does the event loop run another one.
Yielded == pc = "idle" \/ io.pc # "idle"

\* routes.py 41-75 and engine.py hold no lock: a request is served when it
\* arrives, whatever waits for the registry.  The behaviours hold lim.tasks
\* coroutines at a time.
Free == Yielded /\ (pc = "idle" \/ Len(waiting) + 1 < lim.tasks)

\* The coroutines that wait once a new one has started.
Parked == IF pc = "idle" THEN waiting ELSE Append(waiting, Fore)

\* An apply or a rollback has started and not ended.
Mutating(p) == p \in {"apply_fetch", "apply_loop", "rollback_loop"}

Overlaps == Mutating(pc) \/ \E k \in 1..Len(waiting) : Mutating(waiting[k].pc)

\* The event loop goes on with a coroutine that waits, and the one that ran
\* last waits if it has not ended.
Resume ==
    /\ Yielded
    /\ \E k \in 1..Len(waiting) :
         LET c == waiting[k]
             rest == [j \in 1..(Len(waiting) - 1) |->
                          IF j < k THEN waiting[j] ELSE waiting[j + 1]]
         IN  /\ pc' = c.pc
             /\ ap' = c.ap
             /\ rb' = c.rb
             /\ pl' = c.pl
             /\ calls' = c.calls
             /\ io' = c.io
             /\ hist' = [f \in DOMAIN hist |->
                            IF f \in OwnHistory THEN c.own[f] ELSE hist[f]]
             /\ waiting' = IF pc = "idle" THEN rest ELSE Append(rest, Fore)
    /\ UNCHANGED <<reg, rules, planFile, rollbackFile, ignoredFile, result, ops,
                   approvedReq, drawn, runs, pops, lim, faults, wsvars>>

\* The request is written to the connection (96): what the registry r makes
\* of it, given the step out of the client that the coroutine takes from
\* before.  A request that reaches an open connection is carried out or
\* rejected when it arrives: a listing is answered with the list as it is
\* then, a mutation the registry can accept is carried out or not, and
\* area_create chooses the id.  The step leaves the coroutine, the registry
\* and the request as it was written (a list of zero or one request); fault
\* says that the registry rejected a request it could have carried out.
Receipts(r, before, out) ==
    IF before.pc = "sending" \/ out.me.pc # "sending"
    THEN {[io |-> out.me, reg |-> r, sent |-> <<>>, fault |-> FALSE]}
    ELSE LET q == out.me.req[1]
             me == [out.me EXCEPT !.on = out.me.conn]
             arrives == out.conns[out.me.conn[1]] = "open"
         IN  IF q.op = "list"
             THEN {[io |-> [me EXCEPT !.ans = IF arrives THEN <<r[q.target]>> ELSE <<>>],
                    reg |-> r, sent |-> <<>>, fault |-> FALSE]}
             ELSE {[io |-> me, reg |-> r, sent |-> <<q>>,
                    fault |-> arrives /\ Acceptable(r, q)]}
                  \cup
                  (IF ~arrives \/ ~Acceptable(r, q) THEN {}
                   ELSE IF q.op = "area_create"
                   THEN {[io |-> [me EXCEPT !.ans = <<x.res>>],
                          reg |-> Mutate(r, [q EXCEPT !.target = x.made.area_id]),
                          sent |-> <<[q EXCEPT !.target = x.made.area_id,
                                               !.done = TRUE]>>,
                          fault |-> FALSE] :
                            x \in AreaAnswers(r, q.fields.name)}
                   ELSE {[io |-> [me EXCEPT !.ans = << <<>> >>],
                          reg |-> Mutate(r, q),
                          sent |-> <<[q EXCEPT !.done = TRUE]>>,
                          fault |-> FALSE]})

\* The call returns the result of its request.
Returned(me) == me.pc = "idle" /\ me.last = "ok"

\* The result returns only when the registry has answered the request with
\* one, on the connection the coroutine reads from.
Permitted(before, out) ==
    Returned(out.me) => before.ans # <<>> /\ before.on = before.conn

\* The call takes the way of an exception.
Failing(before, out) ==
    /\ before.pc # "closing"
    /\ out.me.pc = "closing" \/ (out.me.pc = "idle" /\ out.me.last # "ok")

\* The other side fails a call that could have gone on: the call takes the
\* way of an exception although one of the steps outs leads on and the
\* registry has not rejected its request.
Fault(before, outs, out) ==
    /\ Failing(before, out)
    /\ \E o \in outs : Permitted(before, o) /\ ~Failing(before, o) /\ o.me # before
    /\ before.on = <<>> \/ before.ans # <<>>

\* The coroutine takes one of the steps outs of the client from before, with
\* sent the requests its operation has written so far.  A behaviour holds
\* lim.faults failures of the other side.
Steps(before, outs, sent) ==
    \E out \in outs :
        /\ Permitted(before, out)
        /\ \E q \in Receipts(reg, before, out) :
           \E fault \in {q.fault \/ Fault(before, outs, out)} :
             /\ fault => faults < lim.faults
             /\ faults' = IF fault THEN faults + 1 ELSE faults
             /\ client' = out.client
             /\ conns' = out.conns
             /\ io' = q.io
             /\ reg' = q.reg
             /\ calls' = IF Returned(out.me) /\ before.req[1].op # "list"
                         THEN [sent EXCEPT ![Len(sent)].ok = TRUE]
                         ELSE sent \o q.sent

\* The coroutine calls send() with the request req (119-147 with 85-96).
Calls(req) == CallBegins([NoIo EXCEPT !.todo = <<"send">>, !.req = <<req>>])

\* A listing of the registry as the client returned it.
Listed(snap, f, ans) == [snap EXCEPT ![f] = ans]

\* 882-884: the listings apply awaits one after the other.
ApplyListings == <<"entities", "areas", "devices">>

\* apply() up to its first await: 870-882.  The caller sends the set of
\* approved ids; a caller that applies again sends the same set
\* (approvedReq).  Without a plan apply raises at once (872).
ApplyBegin ==
    /\ Free
    /\ ops < lim.ops /\ ops + pops < lim.total
    /\ ops' = ops + 1
    /\ IF load_plan = NoFile
       THEN /\ result' = [op |-> "apply", status |-> "raised", error |-> "ValueError"]
            /\ IF pc = "idle"
               THEN /\ hist' = [hist EXCEPT !.phase = "none", !.found = FALSE,
                                            !.last = "apply"]
                    /\ calls' = <<>>
               ELSE /\ hist' = [hist EXCEPT !.last = "apply"]
                    /\ UNCHANGED calls
            /\ UNCHANGED <<pc, ap, waiting, io, reg, client, conns, faults>>
       ELSE /\ ap' = [NoLocals EXCEPT !.approved = approvedReq,
                                      !.actions = PlanActions(load_plan[1]), !.i = 1]
            /\ pc' = "apply_fetch"
            /\ Steps(NoIo, Calls(Listing(ApplyListings[1])), <<>>)
            /\ waiting' = Parked
            /\ hist' = [hist EXCEPT !.regBefore = reg, !.applyCalls = <<>>,
                                    !.phase = "applying", !.accepted = TRUE,
                                    !.rollbackBefore = rollbackFile, !.found = TRUE,
                                    !.planAtStart = planFile, !.handled = <<>>,
                                    !.last = "apply", !.mixed = Overlaps]
            /\ UNCHANGED result
    /\ UNCHANGED <<rules, planFile, rollbackFile, ignoredFile, rb, approvedReq, pl,
                   drawn, runs, pops, lim, task>>

\* The exception of the client that leaves apply(): nothing in apply catches
\* it, routes.py 65-66 reports it.
ApplyRaised(error) == [op |-> "apply", status |-> "raised", error |-> error]

\* One of the listings of 882-884 has returned, and apply goes on to the next
\* one or to its loop; or it has raised.
ApplyFetch ==
    /\ pc = "apply_fetch"
    /\ io.pc = "idle"
    /\ IF io.last = "ok"
       THEN /\ ap' = [ap EXCEPT
                        !.snap = Listed(@, ApplyListings[ap.fetched + 1], io.ans[1]),
                        !.fetched = @ + 1]
            /\ IF ap.fetched + 1 < Len(ApplyListings)
               THEN /\ Steps(NoIo, Calls(Listing(ApplyListings[ap.fetched + 2])), calls)
                    /\ UNCHANGED pc
               ELSE /\ pc' = "apply_loop"
                    /\ io' = NoIo
                    /\ UNCHANGED <<client, conns, faults, reg, calls>>
            /\ UNCHANGED <<result, hist>>
       ELSE /\ pc' = "idle"
            /\ result' = ApplyRaised(ErrorOf(io.last))
            /\ hist' = [hist EXCEPT !.phase = "none", !.accepted = FALSE]
            /\ io' = NoIo
            /\ UNCHANGED <<ap, client, conns, faults, reg, calls>>
    /\ UNCHANGED <<rules, planFile, rollbackFile, ignoredFile, rb, waiting, ops,
                   approvedReq, pl, drawn, runs, pops, lim, task>>

\* One pass of the loop 890-1050 up to the call it awaits, or to its end when
\* it makes none.
ApplyAction ==
    /\ pc = "apply_loop"
    /\ io = NoIo
    /\ ap.i <= Len(ap.actions)
    /\ \E o \in {ApplyOne(ap.actions[ap.i], ap.approved, ap.snap)} :
         /\ ap' = [ap EXCEPT
                      !.i = IF o.calls = <<>> THEN @ + 1 ELSE @,
                      !.steps = @ \o o.steps,
                      !.skipped = @ \o o.skipped,
                      !.applied = IF o.applied
                                  THEN Append(@, ap.actions[ap.i].id) ELSE @]
         /\ IF o.calls = <<>>
            THEN UNCHANGED <<client, conns, faults, io, reg, calls>>
            ELSE Steps(NoIo, Calls(o.calls[1]), calls)
    /\ hist' = [hist EXCEPT !.applyCalls = calls',
                            !.handled = Append(@, ap.actions[ap.i].id)]
    /\ UNCHANGED <<rules, planFile, rollbackFile, ignoredFile, pc, rb, waiting, result,
                   ops, approvedReq, pl, drawn, runs, pops, lim, task>>

\* The call of a pass has returned or raised.  After a result the handler
\* records what is left and the loop goes on (908-918, 943, 966, 989, 1004,
\* 1018, 1034, 1049); the first call of hide_entity that raises is answered
\* with the alternate one (996-1003); any other exception leaves apply.
ApplyCalled ==
    /\ pc = "apply_loop"
    /\ io.pc = "idle" /\ io.last # "none"
    /\ \E a \in {ap.actions[ap.i]} :
         IF io.last = "ok"
         THEN /\ ap' = [ap EXCEPT !.i = @ + 1,
                                  !.retry = FALSE,
                                  !.steps = @ \o Noted(a, io.ans[1]),
                                  !.applied = Append(@, a.id)]
              /\ io' = NoIo
              /\ UNCHANGED <<pc, result, hist, client, conns, faults, reg, calls>>
         ELSE IF a.type = "hide_entity" /\ ~ap.retry
         THEN /\ ap' = [ap EXCEPT !.retry = TRUE]
              /\ Steps(NoIo, Calls(Alternate(a)), calls)
              /\ hist' = [hist EXCEPT !.applyCalls = calls', !.accepted = FALSE]
              /\ UNCHANGED <<pc, result>>
         ELSE /\ pc' = "idle"
              /\ result' = ApplyRaised(ErrorOf(io.last))
              /\ hist' = [hist EXCEPT !.accepted = FALSE, !.phase = "none"]
              /\ io' = NoIo
              /\ UNCHANGED <<ap, client, conns, faults, reg, calls>>
    /\ UNCHANGED <<rules, planFile, rollbackFile, ignoredFile, rb, waiting, ops,
                   approvedReq, pl, drawn, runs, pops, lim, task>>

\* 1052-1054: the record is saved and the result returned.
ApplyFinish ==
    /\ pc = "apply_loop"
    /\ io = NoIo
    /\ ap.i > Len(ap.actions)
    /\ rollbackFile' = <<[steps |-> ap.steps]>>
    /\ result' = [op |-> "apply", status |-> "returned",
                  applied_action_ids |-> ap.applied, skipped |-> ap.skipped,
                  rollback |-> [steps |-> ap.steps]]
    /\ pc' = "idle"
    /\ hist' = [hist EXCEPT !.phase = "applied"]
    /\ UNCHANGED <<reg, io, rules, planFile, ignoredFile, ap, rb, waiting, calls, ops,
                   approvedReq, pl, drawn, runs, pops, lim, faults, wsvars>>

\* rollback() up to its loop: 1057-1063.  Without a record it returns at once
\* (1059).
RollbackBegin ==
    /\ Free
    /\ ops < lim.ops /\ ops + pops < lim.total
    /\ ops' = ops + 1
    /\ IF load_rollback = NoFile
       THEN /\ result' = [op |-> "rollback", status |-> "returned", ok |-> FALSE,
                          detail |-> "No rollback.json found"]
            /\ IF pc = "idle"
               THEN /\ hist' = [hist EXCEPT !.phase = "none", !.last = "rollback"]
                    /\ calls' = <<>>
               ELSE /\ hist' = [hist EXCEPT !.last = "rollback"]
                    /\ UNCHANGED calls
            /\ UNCHANGED <<pc, rb, waiting, io>>
       ELSE /\ rb' = [NoRbLocals EXCEPT !.steps = load_rollback[1].steps,
                                        !.order = RollbackOrder(load_rollback[1].steps),
                                        !.k = 1]
            /\ pc' = "rollback_loop"
            /\ calls' = <<>>
            /\ io' = NoIo
            /\ waiting' = Parked
            /\ hist' = [hist EXCEPT !.phase = IF @ = "applied" THEN "reverting"
                                              ELSE "none",
                                    !.last = "rollback",
                                    !.mixed = @ \/ Overlaps]
            /\ UNCHANGED result
    /\ UNCHANGED <<reg, rules, planFile, rollbackFile, ignoredFile, ap,
                   approvedReq, pl, drawn, runs, pops, lim, faults, wsvars>>

\* One pass of the loop 1066-1092 up to the call it awaits, or to its end
\* when it makes none.
RollbackStep ==
    /\ pc = "rollback_loop"
    /\ io = NoIo
    /\ rb.k <= Len(rb.order)
    /\ \E pos \in {rb.order[rb.k]} :
         \E o \in {RollbackOne(rb.steps[pos])} :
             /\ rb' = [rb EXCEPT !.k = IF o.calls = <<>> THEN @ + 1 ELSE @,
                                 !.reverted = @ + o.reverted,
                                 !.visited = Append(@, pos)]
             /\ IF o.calls = <<>>
                THEN UNCHANGED <<client, conns, faults, io, reg, calls>>
                ELSE Steps(NoIo, Calls(o.calls[1]), calls)
    /\ UNCHANGED <<rules, planFile, rollbackFile, ignoredFile, pc, ap, waiting, result,
                   hist, ops, approvedReq, pl, drawn, runs, pops, lim, task>>

\* The call of a pass has returned (1074, 1079, 1087) or raised: the step
\* counts as reverted, or the exception is added to errors (1091-1092),
\* whatever the registry did with the request; the loop goes on.
RollbackCalled ==
    /\ pc = "rollback_loop"
    /\ io.pc = "idle" /\ io.last # "none"
    /\ \E pos \in {rb.order[rb.k]} :
         rb' = [rb EXCEPT
                  !.k = @ + 1,
                  !.reverted = IF io.last = "ok" THEN @ + 1 ELSE @,
                  !.errors = IF io.last = "ok" THEN @
                             ELSE Append(@, [step |-> rb.steps[pos],
                                             error |-> ErrorOf(io.last)]),
                  !.failed = IF io.last = "ok" THEN @ ELSE Append(@, pos)]
    /\ io' = NoIo
    /\ hist' = [hist EXCEPT !.accepted = @ /\ io.last = "ok"]
    /\ UNCHANGED <<reg, rules, planFile, rollbackFile, ignoredFile, pc, ap, waiting,
                   result, calls, ops, approvedReq, pl, drawn, runs, pops, lim, faults, wsvars>>

\* 1094
RollbackFinish_Miscounts ==
    /\ pc = "rollback_loop"
    /\ io = NoIo
    /\ rb.k > Len(rb.order)
    /\ result' = [op |-> "rollback", status |-> "returned",
                  ok |-> (Len(rb.errors) = 0), reverted |-> rb.reverted + 1,
                  errors |-> rb.errors]
    /\ pc' = "idle"
    /\ hist' = [hist EXCEPT !.phase = IF @ = "reverting" THEN "reverted" ELSE @]
    /\ UNCHANGED <<reg, io, rules, planFile, rollbackFile, ignoredFile, ap, rb,
                   waiting, calls, ops, approvedReq, pl, drawn, runs, pops, lim, faults, wsvars>>

RollbackFinish ==
    /\ pc = "rollback_loop"
    /\ io = NoIo
    /\ rb.k > Len(rb.order)
    /\ result' = [op |-> "rollback", status |-> "returned",
                  ok |-> (Len(rb.errors) = 0), reverted |-> rb.reverted,
                  errors |-> rb.errors]
    /\ pc' = "idle"
    /\ hist' = [hist EXCEPT !.phase = IF @ = "reverting" THEN "reverted" ELSE @]
    /\ UNCHANGED <<reg, io, rules, planFile, rollbackFile, ignoredFile, ap, rb,
                   waiting, calls, ops, approvedReq, pl, drawn, runs, pops, lim, faults, wsvars>>

\* 117-120: the listings _fetch awaits one after the other.
FetchListings == <<"areas", "devices", "entities", "states">>

\* plan() up to its first await (261-266 with 117): the request says whether
\* the fallback area is wanted.
PlanBegin ==
    /\ Free
    /\ pops < lim.pops /\ ops + pops < lim.total
    /\ pops' = pops + 1
    /\ \E include_onbekend_fallback \in BOOLEAN :
         pl' = [NoPlanLocals EXCEPT
                   !.include_onbekend_fallback = include_onbekend_fallback]
    /\ pc' = "plan_fetch"
    /\ Steps(NoIo, Calls(Listing(FetchListings[1])), <<>>)
    /\ waiting' = Parked
    /\ UNCHANGED <<rules, planFile, rollbackFile, ignoredFile, ap, rb, result, hist,
                   ops, approvedReq, drawn, runs, lim, task>>

\* audit() up to its first await (131-132 with 117).
AuditBegin ==
    /\ Free
    /\ pops < lim.pops /\ ops + pops < lim.total
    /\ pops' = pops + 1
    /\ pl' = NoPlanLocals
    /\ pc' = "audit_fetch"
    /\ Steps(NoIo, Calls(Listing(FetchListings[1])), <<>>)
    /\ waiting' = Parked
    /\ UNCHANGED <<rules, planFile, rollbackFile, ignoredFile, ap, rb, result, hist,
                   ops, approvedReq, drawn, runs, lim, task>>

\* A fetch that deletes the persisted plan when a listing raises.
Fetch_DropsPlan ==
    /\ pc \in {"plan_fetch", "audit_fetch"}
    /\ io.pc = "idle"
    /\ IF io.last = "ok"
       THEN /\ pl' = [pl EXCEPT
                        !.snap = Listed(@, FetchListings[pl.fetched + 1], io.ans[1]),
                        !.fetched = @ + 1]
            /\ IF pl.fetched + 1 < Len(FetchListings)
               THEN /\ Steps(NoIo, Calls(Listing(FetchListings[pl.fetched + 2])), calls)
                    /\ UNCHANGED pc
               ELSE /\ pc' = IF pc = "plan_fetch" THEN "plan_run" ELSE "audit_run"
                    /\ io' = NoIo
                    /\ UNCHANGED <<client, conns, faults, reg, calls>>
            /\ UNCHANGED <<result, planFile>>
       ELSE /\ pc' = "idle"
            /\ result' = [op |-> IF pc = "plan_fetch" THEN "plan" ELSE "audit",
                          status |-> "raised", error |-> ErrorOf(io.last)]
            /\ io' = NoIo
            /\ planFile' = NoFile
            /\ UNCHANGED <<pl, client, conns, faults, reg, calls>>
    /\ UNCHANGED <<rules, rollbackFile, ignoredFile, ap, rb, waiting, hist, ops,
                   approvedReq, drawn, runs, pops, lim, task>>

\* One of the listings of _fetch (116-129) has returned, and _fetch goes on
\* to the next one or returns; or it has raised, which leaves plan() or
\* audit() (routes.py 47-48, 57-58).
Fetch ==
    /\ pc \in {"plan_fetch", "audit_fetch"}
    /\ io.pc = "idle"
    /\ IF io.last = "ok"
       THEN /\ pl' = [pl EXCEPT
                        !.snap = Listed(@, FetchListings[pl.fetched + 1], io.ans[1]),
                        !.fetched = @ + 1]
            /\ IF pl.fetched + 1 < Len(FetchListings)
               THEN /\ Steps(NoIo, Calls(Listing(FetchListings[pl.fetched + 2])), calls)
                    /\ UNCHANGED pc
               ELSE /\ pc' = IF pc = "plan_fetch" THEN "plan_run" ELSE "audit_run"
                    /\ io' = NoIo
                    /\ UNCHANGED <<client, conns, faults, reg, calls>>
            /\ UNCHANGED <<result, planFile>>
       ELSE /\ pc' = "idle"
            /\ result' = [op |-> IF pc = "plan_fetch" THEN "plan" ELSE "audit",
                          status |-> "raised", error |-> ErrorOf(io.last)]
            /\ io' = NoIo
            /\ UNCHANGED <<planFile, pl, client, conns, faults, reg, calls>>
    /\ UNCHANGED <<rules, rollbackFile, ignoredFile, ap, rb, waiting, hist, ops,
                   approvedReq, drawn, runs, pops, lim, task>>

\* The coroutine goes on in the call it awaits: in connect() (24-77), in
\* _close_ws() (79-83) and in send() (96-116).
Awaits(outs) ==
    /\ pc # "idle"
    /\ Steps(io, outs, calls)
    /\ hist' = [hist EXCEPT !.applyCalls = IF pc \in {"apply_fetch", "apply_loop"}
                                           THEN calls' ELSE @]
    /\ UNCHANGED <<rules, planFile, rollbackFile, ignoredFile, pc, ap, rb, waiting,
                   result, ops, approvedReq, pl, drawn, runs, pops, lim, task>>

AwaitConnect == Awaits(ConnectSteps(io))

AwaitClose == Awaits(CloseSteps(io))

AwaitSend == Awaits(SendSteps(io))

\* 268-813: the rules are loaded, the passes run, the ignore set is read and
\* the plan saved, without an await in between.  The order in which a set is
\* walked shows only when the set of a device's linked areas has two
\* elements or more; the other runs keep to one order.
PlanFinish ==
    /\ pc = "plan_run"
    /\ \E seed \in (IF \E i \in 1..Len(pl.snap.devices) :
                           Cardinality(LinkedAreas(pl.snap, Get(pl.snap.devices[i], "id"))) >= 2
                     THEN {"up", "down"} ELSE {"up"}) :
         \E generated \in {Generate(pl.snap, rules, pl.include_onbekend_fallback, seed)} :
         \E all_actions \in {AllActions(generated, drawn)} :
         \E plan \in {PlanDoc(all_actions, ignoredFile)} :
             /\ planFile' = <<plan>>
             /\ result' = [op |-> "plan", status |-> "returned", plan |-> plan]
             /\ drawn' = drawn + Len(generated)
             /\ runs' = Append(runs, [snap |-> pl.snap, ruleset |-> rules,
                                      ignored |-> ignoredFile,
                                      include_onbekend_fallback |->
                                          pl.include_onbekend_fallback,
                                      all_actions |-> all_actions, plan |-> plan])
    /\ pc' = "idle"
    /\ UNCHANGED <<reg, io, rules, rollbackFile, ignoredFile, ap, rb, waiting, calls,
                   hist, ops, approvedReq, pl, pops, lim, faults, wsvars>>

\* The fingerprints a request names: those of the actions the caller has been
\* shown, in the persisted plan or by an earlier planning run.
ShownFingerprints ==
    (IF planFile = NoFile THEN {} ELSE Fingerprints(planFile[1].actions))
    \cup UNION {Fingerprints(runs[i].all_actions) : i \in 1..Len(runs)}

\* An ignore that takes a fingerprint out again when it is already there.
add_ignored_Toggle(current, fingerprints) ==
    (current \ fingerprints) \cup (fingerprints \ current)

\* 852-857
add_ignored(current, fingerprints) == current \cup fingerprints

\* 859-864
remove_ignored(current, fingerprints) == current \ fingerprints

\* POST /ignore, routes.py 90-97.  The handlers of the ignore store and
\* get_plan hold no await: each runs at once, while the coroutine that ran
\* last stands at an await.
AddIgnored ==
    /\ Yielded
    /\ pops < lim.pops /\ ops + pops < lim.total
    /\ pops' = pops + 1
    /\ \E fp \in ShownFingerprints :
         /\ ignoredFile' = add_ignored(ignoredFile, {fp})
         /\ result' = [op |-> "ignore", ok |-> TRUE,
                       ignored_count |-> Cardinality(add_ignored(ignoredFile, {fp}))]
         /\ hist' = [hist EXCEPT !.store = [op |-> "ignore", fingerprints |-> {fp},
                                            before |-> ignoredFile,
                                            prev_op |-> @.op,
                                            prev_fingerprints |-> @.fingerprints]]
    /\ UNCHANGED <<reg, io, rules, planFile, rollbackFile, pc, ap, rb, waiting,
                   calls, ops, approvedReq, pl, drawn, runs, lim, faults, wsvars>>

\* DELETE /ignore, routes.py 100-107
RemoveIgnored ==
    /\ Yielded
    /\ pops < lim.pops /\ ops + pops < lim.total
    /\ pops' = pops + 1
    /\ \E fp \in ShownFingerprints :
         /\ ignoredFile' = remove_ignored(ignoredFile, {fp})
         /\ result' = [op |-> "unignore", ok |-> TRUE,
                       ignored_count |-> Cardinality(remove_ignored(ignoredFile, {fp}))]
         /\ hist' = [hist EXCEPT !.store = [op |-> "unignore", fingerprints |-> {fp},
                                            before |-> ignoredFile,
                                            prev_op |-> @.op,
                                            prev_fingerprints |-> @.fingerprints]]
    /\ UNCHANGED <<reg, io, rules, planFile, rollbackFile, pc, ap, rb, waiting,
                   calls, ops, approvedReq, pl, drawn, runs, lim, faults, wsvars>>

\* POST /ignore/clear, routes.py 110-117 with 866-867
ClearIgnored ==
    /\ Yielded
    /\ pops < lim.pops /\ ops + pops < lim.total
    /\ pops' = pops + 1
    /\ ignoredFile' = {}
    /\ result' = [op |-> "clear_ignored", ok |-> TRUE, ignored_count |-> 0]
    /\ hist' = [hist EXCEPT !.store = [op |-> "clear", fingerprints |-> {},
                                       before |-> ignoredFile,
                                       prev_op |-> @.op,
                                       prev_fingerprints |-> @.fingerprints]]
    /\ UNCHANGED <<reg, io, rules, planFile, rollbackFile, pc, ap, rb, waiting,
                   calls, ops, approvedReq, pl, drawn, runs, lim, faults, wsvars>>

\* 842-846: load_ignored() is the persisted list, empty without a file; the
\* sorted list of save_ignored (848-850) holds each fingerprint once.
load_ignored == SortedStrs(ignoredFile)

\* GET /ignore, routes.py 120-127
GetIgnored ==
    /\ Yielded
    /\ pops < lim.pops /\ ops + pops < lim.total
    /\ pops' = pops + 1
    /\ result' = [op |-> "get_ignored", ok |-> TRUE, ignored |-> load_ignored,
                  ignored_count |-> Len(load_ignored)]
    /\ UNCHANGED <<reg, io, rules, planFile, rollbackFile, ignoredFile, pc, ap, rb,
                   waiting, calls, hist, ops, approvedReq, pl, drawn, runs, lim, faults, wsvars>>

\* GET /plan, routes.py 78-81
GetPlan ==
    /\ Yielded
    /\ pops < lim.pops /\ ops + pops < lim.total
    /\ pops' = pops + 1
    /\ result' = [op |-> "get_plan", plan |-> load_plan]
    /\ UNCHANGED <<reg, io, rules, planFile, rollbackFile, ignoredFile, pc, ap, rb,
                   waiting, calls, hist, ops, approvedReq, pl, drawn, runs, lim, faults, wsvars>>

\* 139-142: a dict built by a comprehension over xs; a later item overwrites
\* an earlier one that has the same key.
DictOf(xs, key, val) ==
    LET I == {i \in 1..Len(xs) : Truthy(Get(xs[i], key))}
    IN  [k \in {xs[i][key] : i \in I} |->
            LET last == CHOOSE i \in I : /\ xs[i][key] = k
                                         /\ \A j \in I : xs[j][key] = k => j <= i
            IN  Get(xs[last], val)]

\* A report that carries proposals: what audit() must not return.
AuditReport_Plans(d) ==
    [actions |-> AllActions(Generate(d, EmptyRules, FALSE, "up"), 0)]

\* 133-259: the report of audit() over the fetched registries d, without its
\* time stamp.
AuditReport(d) ==
    LET active(er) == IsActive(d, er.entity_id)
        named == SelectSeq(d.entities, LAMBDA er : Truthy(Get(er, "entity_id")))
        devices_without_area ==
            [i \in 1..Len(SelectSeq(d.devices, LAMBDA dv : Falsy(Get(dv, "area_id")))) |->
                LET dv == SelectSeq(d.devices, LAMBDA x : Falsy(Get(x, "area_id")))[i]
                IN  [device_id |-> Get(dv, "id"),
                     name |-> Or2(Get(dv, "name_by_user"), Or2(Get(dv, "name"), <<>>))]]
        without_area ==
            SelectSeq(named, LAMBDA er : active(er) /\ Falsy(EffectiveAreaId(d, er)))
        entities_without_effective_area ==
            [i \in 1..Len(without_area) |->
                [entity_id |-> without_area[i].entity_id,
                 name |-> Or2(Get(without_area[i], "name"),
                              Or2(Get(without_area[i], "original_name"), <<>>)),
                 device_id |-> Get(without_area[i], "device_id")]]
        dupes ==
            SelectSeq(named, LAMBDA er :
                /\ is_suffix_duplicate_entity(er.entity_id)[1]
                /\ is_suffix_duplicate_entity(er.entity_id)[2] \in EntityIds(d))
        suffix_dupes ==
            [i \in 1..Len(dupes) |->
                [entity_id |-> dupes[i].entity_id,
                 base_entity_id |-> is_suffix_duplicate_entity(dupes[i].entity_id)[2]]]
        ers == WithUniqueId(d)
        eids(uid) == LET members == SelectSeq(ers, LAMBDA er : er.unique_id = uid)
                     IN  [i \in 1..Len(members) |-> members[i].entity_id]
        groups == SelectSeq(FirstSeen([i \in 1..Len(ers) |-> ers[i].unique_id]),
                            LAMBDA uid : Len(eids(uid)) > 1)
        unique_id_dupes ==
            [i \in 1..Len(groups) |->
                [unique_id |-> groups[i], entity_ids |-> Sorted(eids(groups[i]))]]
        media ==
            SelectSeq(named, LAMBDA er :
                /\ StartsWith(er.entity_id,
                              <<"m", "e", "d", "i", "a", "_", "p", "l", "a", "y", "e", "r", ".">>)
                /\ active(er)
                /\ looks_generic_media_name(MediaCurrent(d, er)))
        generic_media ==
            [i \in 1..Len(media) |->
                [entity_id |-> media[i].entity_id,
                 current_name |-> MediaCurrent(d, media[i]),
                 effective_area_id |-> EffectiveAreaId(d, media[i])]]
        helper_ers ==
            SelectSeq(named, LAMBDA er :
                /\ \/ StartsWith(er.entity_id, <<"i", "n", "p", "u", "t", "_">>)
                   \/ StartsWith(er.entity_id, <<"s", "e", "n", "s", "o", "r", ".">>)
                   \/ StartsWith(er.entity_id,
                                 <<"t", "e", "m", "p", "l", "a", "t", "e", ".">>)
                /\ active(er))
        helpers ==
            [i \in 1..Len(helper_ers) |->
                [entity_id |-> helper_ers[i].entity_id,
                 effective_area_id |-> EffectiveAreaId(d, helper_ers[i])]]
    IN  [counts |->
            [areas |-> Len(d.areas),
             devices |-> Len(d.devices),
             entities |-> Len(d.entities),
             devices_without_area |-> Len(devices_without_area),
             entities_without_effective_area |-> Len(entities_without_effective_area),
             suffix_duplicate_entities |-> Len(suffix_dupes),
             unique_id_duplicate_groups |-> Len(unique_id_dupes),
             generic_media_players |-> Len(generic_media)],
         devices_without_area |-> devices_without_area,
         entities_without_effective_area |-> entities_without_effective_area,
         suffix_duplicate_entities |-> suffix_dupes,
         unique_id_duplicates |-> unique_id_dupes,
         generic_media_players |-> generic_media,
         helpers |-> helpers,
         area_id_by_name |->
            DictOf(SelectSeq(d.areas, LAMBDA a : Truthy(Get(a, "area_id"))),
                   "name", "area_id"),
         area_name_by_id |-> DictOf(d.areas, "area_id", "name")]

\* GET /audit, routes.py 41-48 with engine.py 133-259: once the registries
\* are fetched the report is computed and returned without a further await.
Audit ==
    /\ pc = "audit_run"
    /\ result' = [op |-> "audit", status |-> "returned", report |-> AuditReport(pl.snap)]
    /\ pc' = "idle"
    /\ UNCHANGED <<reg, io, rules, planFile, rollbackFile, ignoredFile, ap, rb,
                   waiting, calls, hist, ops, approvedReq, pl, drawn, runs, pops, lim, faults,
                   wsvars>>

Next ==
    \/ ApplyBegin
    \/ ApplyFetch
    \/ ApplyAction
    \/ ApplyCalled
    \/ ApplyFinish
    \/ RollbackBegin
    \/ RollbackStep
    \/ RollbackCalled
    \/ RollbackFinish
    \/ AwaitConnect
    \/ AwaitClose
    \/ AwaitSend
    \/ PlanBegin
    \/ AuditBegin
    \/ Fetch
    \/ PlanFinish
    \/ AddIgnored
    \/ RemoveIgnored
    \/ ClearIgnored
    \/ GetPlan
    \/ GetIgnored
    \/ Audit
    \/ Resume

Spec == Init /\ [][Next]_vars

SpecUpd == InitUpd /\ [][Next]_vars

SpecPlan == InitPlan /\ [][Next]_vars

SpecMixed == InitMixed /\ [][Next]_vars

-----------------------------------------------------------------------------
(* The registries of names. *)

\* The entities: one whose id holds two tokens and its numbered namesakes
\* (the first three share a unique_id, the last is on a device that has an
\* area), and four media players without a name, three of them in one area.
NE1 == EntityRec(<<"l", ".", "x", "_", "2">>, <<"q">>, None, None, None, None, None, None)
NE2 == EntityRec(<<"l", ".", "x">>, <<"q">>, None, None, None, None, None, None)
NE3 == EntityRec(<<"l", ".", "x", "_", "1">>, <<"q">>, None, None, None, None, None, None)
NE4 == EntityRec(<<"l", ".", "x", "_", "0", "2">>, None, None, None, None, None, None, None)
NE5 == EntityRec(<<"l", ".", "x", "_", "1", "0">>, None, None, None, D1, None, None, None)
NE6 == EntityRec(<<"m", "e", "d", "i", "a", "_", "p", "l", "a", "y", "e", "r", ".", "t", "v", "_", "2">>, None, None, None, None, A1, None, None)
NE7 == EntityRec(<<"m", "e", "d", "i", "a", "_", "p", "l", "a", "y", "e", "r", ".", "t", "v">>, None, None, None, None, A1, None, None)
NE8 == EntityRec(<<"m", "e", "d", "i", "a", "_", "p", "l", "a", "y", "e", "r", ".", "t", "v", "3">>, None, None, None, None, A2, None, None)
NE9 == EntityRec(<<"m", "e", "d", "i", "a", "_", "p", "l", "a", "y", "e", "r", ".", "x">>, None, None, None, None, A1, None, None)

NameEntities == <<NE1, NE2, NE3, NE4, NE5, NE6, NE7, NE8, NE9>>

\* The most entities a registry of names holds.
MaxNamed == 3

NamedLists ==
    {Pick(NameEntities, S) :
        S \in {T \in SUBSET (1..Len(NameEntities)) : Cardinality(T) <= MaxNamed}}

A3 == <<"a", "3">>

\* The area lists: a name that ends like an index and a name without a
\* token, two names of two tokens, and two names of one token.
IndexedAreas == <<AreaRec(A1, <<"K">>), AreaRec(A2, <<"K", " ", "1">>), AreaRec(A3, <<"-">>)>>

AreaLists ==
    { IndexedAreas,
      <<AreaRec(A1, <<"L", " ", "X">>), AreaRec(A2, <<"L", " ", "R">>)>>,
      <<AreaRec(A1, <<"L">>), AreaRec(A2, <<"X">>)>> }

RegNames(areas, entities) ==
    [areas |-> areas,
     devices |-> <<DeviceRec(D1, NameM, None, A2)>>,
     entities |-> entities,
     states |-> [i \in 1..Len(entities) |-> StateRec(entities[i].entity_id, On, None)]]

\* The rules: none, or the removal of the entity of two tokens and of its
\* second namesake, or the removal of the second namesake and the hiding of
\* the first, which later passes propose as well.
NameRules ==
    {EmptyRules,
     [entity_remove |-> [ids |-> <<NE2.entity_id, NE1.entity_id>>]],
     [entity_remove |-> [ids |-> <<NE1.entity_id>>],
      entity_hide |-> [ids |-> <<NE3.entity_id>>]]}

\* The behaviours over the registries of names hold up to two requests to
\* the planner and the audit, or one that the other side may fail.
InitNames ==
    /\ \E areas \in AreaLists : \E es \in NamedLists : reg = RegNames(areas, es)
    /\ rules \in NameRules
    /\ planFile = NoFile
    /\ approvedReq = {}
    /\ ignoredFile = {}
    /\ InitRest({Limits(0, 2, 2, 1, 0), Limits(0, 1, 1, 1, 1)})
    /\ ClientIdle

NextRead ==
    \/ PlanBegin
    \/ AuditBegin
    \/ AwaitConnect
    \/ AwaitClose
    \/ AwaitSend
    \/ Fetch
    \/ PlanFinish
    \/ Audit

SpecNames == InitNames /\ [][NextRead]_vars

-----------------------------------------------------------------------------
(* The client's calls, made by coroutines other than the engine's. *)

\* The coroutine t takes one of the steps outs.
Does(t, outs) ==
    /\ \E out \in outs :
         /\ client' = out.client
         /\ conns' = out.conns
         /\ task' = [task EXCEPT ![t] = out.me]
    /\ UNCHANGED engvars

CallBegin(t) ==
    /\ task[t].pc = "idle" /\ task[t].todo # <<>>
    /\ Does(t, CallBegins(task[t]))

ConnectStep(t) == Does(t, ConnectSteps(task[t]))

CloseStep(t) == Does(t, CloseSteps(task[t]))

SendStep(t) == Does(t, SendSteps(task[t]))

\* The calls a coroutine makes.
Todos ==
    UNION {[1..n -> {"send", "connect"}] : n \in 0..MaxCalls}

\* The client's behaviours start with a new client and up to MaxCalls calls
\* for each coroutine; the engine stands still.
InitWs ==
    /\ reg = RegApply
    /\ rules = EmptyRules
    /\ planFile = NoFile
    /\ approvedReq = {}
    /\ ignoredFile = {}
    /\ InitRest({Limits(0, 0, 0, 1, 0)})
    /\ \E token \in BOOLEAN : client = NewClient(token)
    /\ conns = <<>>
    /\ task \in [Tasks -> {[NoTask EXCEPT !.todo = todo] : todo \in Todos}]

NextWs == \E t \in Tasks : CallBegin(t) \/ ConnectStep(t) \/ CloseStep(t) \/ SendStep(t)

SpecWs == InitWs /\ [][NextWs]_vars


-----------------------------------------------------------------------------
(* Claims about apply and rollback. *)

\* The last operation begun is an apply that found a plan (running or ended).
InApply ==
    /\ hist.found
    /\ \/ pc \in {"apply_fetch", "apply_loop"}
       \/ pc = "idle" /\ result.op = "apply"

ApplyEnded == hist.found /\ pc = "idle" /\ result.op = "apply"

\* ... after it had listed the registry and entered its loop over the actions.
ApplyEndedInLoop == ApplyEnded /\ ap.fetched = Len(ApplyListings)

ApplyReturned == ApplyEnded /\ result.status = "returned"

\* The step is taken by the coroutine that runs, at one of the positions at:
\* it moves on, in its operation or in the call it awaits, or ends; no
\* request is accepted and no other coroutine takes over.
Moves(at) ==
    /\ pc \in at
    /\ waiting' = waiting
    /\ pc' # pc \/ ap' # ap \/ rb' # rb \/ pl' # pl \/ io' # io

\* The step accepts a request whose coroutine starts at position p.
Begins(p) ==
    /\ ops' + pops' = ops + pops + 1
    /\ pc' = p
    /\ pc = "idle" \/ waiting' = Append(waiting, Fore)

\* The step is one of the loop of the apply that runs, about the next action:
\* it begins the pass over it, goes on in the call the pass awaits, or goes on
\* after the call has returned or raised.
LoopStep == Moves({"apply_loop"}) /\ ap.i <= Len(ap.actions)

PassBegins == io = NoIo

CallReturned == io.pc = "idle" /\ io.last = "ok"

CallRaised == io.pc = "idle" /\ io.last \notin {"none", "ok"}

\* The requests that changed the registry were served one after the other: no
\* apply or rollback began while another one was running.
Serialized == ~hist.mixed

RollbackRan == pc = "idle" /\ result.op = "rollback" /\ "errors" \in DOMAIN result

Gated(a) == a.requires_approval /\ a.id \notin approvedReq

RequiresApprovalEntry(aid) ==
    [id |-> aid, reason |-> [text |-> "requires_approval", arg |-> ""]]

\* C1: an action of the persisted plan that requires approval and whose id is
\* not approved gets no registry mutation from apply, is never in applied, and
\* once the loop has passed it is in skipped with reason "requires_approval"
\* (also in the returned result).
C1_ApprovalGating ==
    InApply =>
        \A k \in 1..Len(ap.actions) :
            Gated(ap.actions[k]) =>
                /\ \A j \in 1..Len(calls) : calls[j].aid # ap.actions[k].id
                /\ \A j \in 1..Len(ap.applied) : ap.applied[j] # ap.actions[k].id
                /\ k < ap.i =>
                     \E j \in 1..Len(ap.skipped) :
                        ap.skipped[j] = RequiresApprovalEntry(ap.actions[k].id)
                /\ ApplyReturned =>
                     \E j \in 1..Len(result.skipped) :
                        result.skipped[j] = RequiresApprovalEntry(ap.actions[k].id)

\* An apply returned in which one action was gated while another one, approved,
\* was applied with a registry mutation.
C1_Witness ==
    /\ ApplyReturned
    /\ approvedReq # {}
    /\ \E k \in 1..Len(ap.actions) : Gated(ap.actions[k])
    /\ \E j \in 1..Len(calls) : calls[j].ok /\ calls[j].aid \in approvedReq

\* C2: when the registry rejects the mutation of an action during apply,
\* apply still handles every action of the plan (each id ends in applied or in
\* skipped) and returns its result instead of raising.
C2_PartialFailureTolerant ==
    (ApplyEnded /\ \E j \in 1..Len(calls) : ~calls[j].ok) =>
        /\ result.status = "returned"
        /\ \A k \in 1..Len(ap.actions) :
             \/ \E j \in 1..Len(ap.applied) : ap.applied[j] = ap.actions[k].id
             \/ \E j \in 1..Len(ap.skipped) : ap.skipped[j].id = ap.actions[k].id

StepTarget(st) ==
    IF st.type \in {"entity_update", "entity_restore_note"} THEN st.entity_id
    ELSE IF st.type = "device_update" THEN st.device_id
    ELSE st.area_id

\* The kind of step that records a call of the given kind.
StepTypeOf(op) ==
    CASE op = "entity_update" -> "entity_update"
      [] op = "entity_remove" -> "entity_restore_note"
      [] op = "device_update" -> "device_update"
      [] op = "area_update" -> "area_update"
      [] op = "area_create" -> "note"

Covers(steps, c) ==
    \E j \in 1..Len(steps) :
        steps[j].type = StepTypeOf(c.op) /\ StepTarget(steps[j]) = c.target

\* C3: after any apply that found a persisted plan, however its actions went
\* (applied, skipped or failed), the persisted rollback record is the one that
\* call built, and it has a step for every registry update, removal and
\* creation the call made.  (Stated for the applies that reached their loop
\* over the actions.)
C3_RollbackRecordPersisted ==
    ApplyEndedInLoop =>
        /\ rollbackFile = <<[steps |-> ap.steps]>>
        /\ \A j \in 1..Len(calls) : calls[j].ok => Covers(rollbackFile[1].steps, calls[j])

\* The value of a field of the object a call addresses, as a list of zero or
\* one value.
FieldNow(r, c, f) ==
    LET found == IF c.op = "entity_update" THEN Lookup(r.entities, "entity_id", c.target)
                 ELSE IF c.op = "device_update" THEN Lookup(r.devices, "id", c.target)
                 ELSE Lookup(r.areas, "area_id", c.target)
    IN  IF found = <<>> THEN <<>> ELSE <<found[1][f]>>

\* C4: after an apply of update-type actions and the rollback that follows
\* it, with every registry call of both accepted, every field apply wrote
\* (area_id, name, name_by_user, hidden_by, disabled_by) of every object it
\* touched has the value it had before the apply.  (No other apply or
\* rollback was served while the two ran.)
C4_RoundTrip ==
    (hist.phase = "reverted" /\ hist.accepted /\ Serialized) =>
        \A j \in 1..Len(hist.applyCalls) :
            \A f \in DOMAIN hist.applyCalls[j].fields :
                FieldNow(reg, hist.applyCalls[j], f)
                    = FieldNow(hist.regBefore, hist.applyCalls[j], f)

\* A round trip in which two applied actions wrote the same field of the same
\* entity, whose prior value was null.
C4_Witness ==
    /\ hist.phase = "reverted"
    /\ hist.accepted /\ Serialized
    /\ \E i, j \in 1..Len(hist.applyCalls) :
         /\ i < j
         /\ hist.applyCalls[i].target = hist.applyCalls[j].target
         /\ hist.applyCalls[i].fields # hist.applyCalls[j].fields
         /\ DOMAIN hist.applyCalls[i].fields = {"area_id"}
         /\ DOMAIN hist.applyCalls[j].fields = {"area_id"}
         /\ FieldNow(hist.regBefore, hist.applyCalls[i], "area_id") = <<None>>

\* C5: rollback visits the recorded steps in exactly the reverse of their
\* recorded order; a step whose call fails is recorded in errors and every
\* earlier-recorded step is still visited; ok is true iff errors is empty.
C5_RollbackReverseOrder ==
    /\ (pc = "rollback_loop" \/ RollbackRan) =>
          /\ \A j \in 1..Len(rb.visited) : rb.visited[j] = Len(rb.steps) + 1 - j
          /\ Len(rb.errors) = Len(rb.failed)
          /\ \A j \in 1..Len(rb.failed) : rb.errors[j].step = rb.steps[rb.failed[j]]
    /\ RollbackRan =>
          /\ Len(rb.visited) = Len(rb.steps)
          /\ result.errors = rb.errors
          /\ result.ok <=> (rb.errors = <<>>)

\* A rollback of two steps whose first call (the later-recorded step) failed
\* and whose second call was still made and accepted.
C5_Witness ==
    /\ RollbackRan
    /\ Len(rb.steps) = 2
    /\ rb.failed = <<2>>
    /\ ~result.ok
    /\ Len(calls) = 2
    /\ ~calls[1].ok /\ ~calls[1].done
    /\ calls[2].ok

-----------------------------------------------------------------------------
(* Claims about planning and the ignore store. *)

\* C6: while a fingerprint is in the ignore set (ignore returned, no
\* un-ignore, no clear since), the plan get_plan returns, which is also the
\* plan the last plan() produced, holds no action with that fingerprint.
C6_IgnoreHidesCurrentAndFuture ==
    \A fp \in ignoredFile :
        load_plan # NoFile => fp \notin Fingerprints(load_plan[1].actions)

\* What two runs must agree on at a position of their action lists.
UpToId(a) ==
    [type |-> a.type, payload |-> a.payload, reason |-> a.reason,
     confidence |-> a.confidence, requires_approval |-> a.requires_approval,
     fingerprint |-> action_fingerprint(a)]

SameInputs(r1, r2) ==
    /\ r1.snap = r2.snap
    /\ r1.ruleset = r2.ruleset
    /\ r1.ignored = r2.ignored
    /\ r1.include_onbekend_fallback = r2.include_onbekend_fallback

\* C7: two planning runs with the same snapshot, ruleset, ignore set and
\* fallback flag produce action lists of equal length that agree at every
\* position on type, payload, reason, confidence, requires_approval and
\* fingerprint.
C7_PlanDeterministic ==
    \A i, j \in 1..Len(runs) :
        SameInputs(runs[i], runs[j]) =>
            /\ Len(runs[i].plan.actions) = Len(runs[j].plan.actions)
            /\ \A k \in 1..Len(runs[i].plan.actions) :
                 UpToId(runs[i].plan.actions[k]) = UpToId(runs[j].plan.actions[k])

\* Two runs with the same inputs planned several actions, among them a device
\* backfill, under ids that all differ.
C7_Witness ==
    \E i, j \in 1..Len(runs) :
        /\ i < j
        /\ SameInputs(runs[i], runs[j])
        /\ Len(runs[i].plan.actions) >= 2
        /\ \E k \in 1..Len(runs[i].plan.actions) :
             runs[i].plan.actions[k].type = "set_device_area"
        /\ PlanIds(runs[i].plan) \cap PlanIds(runs[j].plan) = {}

\* C8: the plan of every planning run holds no action whose fingerprint is in
\* the ignore set the run read, holds the other generated actions in their
\* generated order, and counts in ignored_count the generated actions it
\* dropped.
C8_IgnoredFiltered ==
    \A i \in 1..Len(runs) :
        LET r == runs[i]
            kept == r.plan.actions
            dropped == {k \in 1..Len(r.all_actions) :
                          action_fingerprint(r.all_actions[k]) \in r.ignored}
        IN  /\ \A k \in 1..Len(kept) : action_fingerprint(kept[k]) \notin r.ignored
            /\ kept = Pick(r.all_actions, (1..Len(r.all_actions)) \ dropped)
            /\ r.plan.ignored_count = Cardinality(dropped)
            /\ Len(r.all_actions) = Len(kept) + r.plan.ignored_count

\* A run dropped an ignored action and kept another one.
C8_Witness ==
    \E i \in 1..Len(runs) :
        /\ runs[i].plan.ignored_count > 0
        /\ Len(runs[i].plan.actions) > 0
        /\ planFile = <<runs[i].plan>>

\* The name an area has after the rename_area actions of a plan are applied
\* in plan order.
NameAfter(area, actions) ==
    LET S == {k \in 1..Len(actions) :
                /\ actions[k].type = "rename_area"
                /\ actions[k].payload.area_id = area.area_id}
    IN  IF S = {} THEN area.name
        ELSE actions[CHOOSE k \in S : \A m \in S : m <= k].payload.name

\* C9: applying all rename_area actions of a plan to the snapshot it was
\* computed from leaves the area names pairwise distinct.
C9_AreaNamesStayDistinct ==
    \A i \in 1..Len(runs) :
        LET areas == runs[i].snap.areas
            actions == runs[i].plan.actions
        IN  \A m, n \in 1..Len(areas) :
                m # n => NameAfter(areas[m], actions) # NameAfter(areas[n], actions)

\* C10: in the actions of a planning run, no action follows a removal of the
\* entity it is for.
C10_RemovedEntityUntouched ==
    \A i \in 1..Len(runs) :
        LET emitted == runs[i].all_actions
        IN  \A m, n \in 1..Len(emitted) :
                (m < n /\ emitted[m].type = "remove_entity_registry_entry")
                    => Get(emitted[n].payload, "entity_id") # emitted[m].payload.entity_id

\* C11: the plan of every planning run holds no two actions with the same
\* fingerprint.
C11_PlanDeduplicated ==
    \A i \in 1..Len(runs) :
        LET actions == runs[i].plan.actions
        IN  \A m, n \in 1..Len(actions) :
                m # n => action_fingerprint(actions[m]) # action_fingerprint(actions[n])


DestructiveTypes ==
    {"remove_entity_registry_entry", "hide_entity", "rename_entity", "rename_device",
     "rename_area"}

\* C12: in the plan of every planning run, every action that removes, hides
\* or renames requires approval.
C12_DestructiveNeedsApproval ==
    \A i \in 1..Len(runs) :
        LET actions == runs[i].plan.actions
        IN  \A k \in 1..Len(actions) :
                actions[k].type \in DestructiveTypes => actions[k].requires_approval


-----------------------------------------------------------------------------
(* Claims about what apply and rollback read and write. *)

\* C13: apply handles the actions of the plan that was persisted when it
\* started: at every step the actions handled so far are the first ones of
\* that plan, in its order and once each, whatever plan() has persisted
\* since; every registry call is issued for one of them, and when apply
\* returns it has handled them all.
C13_ApplyReplaysPersistedPlan ==
    hist.found =>
        LET planned == hist.planAtStart[1].actions
        IN  /\ Len(hist.handled) <= Len(planned)
            /\ \A k \in 1..Len(hist.handled) : hist.handled[k] = planned[k].id
            /\ \A j \in 1..Len(hist.applyCalls) :
                 \E k \in 1..Len(hist.handled) : hist.applyCalls[j].aid = hist.handled[k]
            /\ (pc = "idle" /\ ApplyReturned) => Len(hist.handled) = Len(planned)

\* An apply that handled two actions returned after plan() persisted another
\* plan, computed from the registry the first of these actions had changed.
C13_Witness ==
    /\ pc = "idle" /\ ApplyReturned /\ hist.found
    /\ Len(hist.handled) >= 2
    /\ Len(hist.applyCalls) >= 1
    /\ planFile # hist.planAtStart
    /\ \E i \in 1..Len(runs) : runs[i].snap # hist.regBefore /\ planFile = <<runs[i].plan>>


\* The fields of the payload a handler of apply asks for.
RequiredFields(type) ==
    CASE type = "create_area" -> {"name"}
      [] type = "set_entity_area" -> {"entity_id", "area_id"}
      [] type = "set_device_area" -> {"device_id", "area_id"}
      [] type = "rename_entity" -> {"entity_id", "name"}
      [] type = "rename_device" -> {"device_id", "name"}
      [] type = "rename_area" -> {"area_id", "name"}
      [] type = "hide_entity" -> {"entity_id"}
      [] type = "remove_entity_registry_entry" -> {"entity_id"}
      [] OTHER -> {"unsupported"}

\* An action apply has to carry out: approved or in no need of approval, of
\* a type apply knows, with the payload its handler asks for.
Eligible(a) ==
    /\ ~a.requires_approval \/ a.id \in approvedReq
    /\ \A f \in RequiredFields(a.type) : Truthy(Get(a.payload, f))

SeqToSet(s) == {s[k] : k \in 1..Len(s)}

CalledFor(aid) == \E j \in 1..Len(hist.applyCalls) : hist.applyCalls[j].aid = aid

\* An apply that returned and whose registry calls were all accepted.
ApplyAccepted == pc = "idle" /\ ApplyReturned /\ hist.accepted

\* C14 as stated: when apply has returned and the registry accepted every
\* call, every eligible action of the persisted plan is in applied and a
\* registry call was issued for it.
C14_EligibleAppliedAndCalled ==
    ApplyAccepted =>
        \A k \in 1..Len(hist.planAtStart[1].actions) :
            LET a == hist.planAtStart[1].actions[k]
            IN  Eligible(a) =>
                    /\ a.id \in SeqToSet(result.applied_action_ids)
                    /\ CalledFor(a.id)

\* A create_area for a name the areas listed at the start of apply hold.
AreaPresent(a) ==
    /\ a.type = "create_area"
    /\ \E i \in 1..Len(ap.snap.areas) : ap.snap.areas[i].name = Get(a.payload, "name")

\* C14, amended: when apply has returned and the registry accepted every
\* call, every eligible action of the persisted plan is in applied; a
\* registry call was issued for it unless it is a create_area whose name
\* was already in use, and then none was.
C14_EligibleApplied ==
    ApplyAccepted =>
        \A k \in 1..Len(hist.planAtStart[1].actions) :
            LET a == hist.planAtStart[1].actions[k]
            IN  Eligible(a) =>
                    /\ a.id \in SeqToSet(result.applied_action_ids)
                    /\ CalledFor(a.id) <=> ~AreaPresent(a)

\* An apply without approvals returned having applied an action that needs
\* none, beside an action it had to skip.
C14_Witness ==
    /\ ApplyAccepted
    /\ approvedReq = {}
    /\ Len(result.applied_action_ids) >= 1
    /\ Len(result.skipped) >= 1
    /\ \E k \in 1..Len(hist.planAtStart[1].actions) :
         Eligible(hist.planAtStart[1].actions[k])


\* C15: the pass of apply that handles a create_area (approved, with a name)
\* when an area of that name exists reports the action applied, issues no
\* call and records no step; otherwise it issues one area_create and, once
\* the call has returned, records one note step and reports the action
\* applied.  (Stated for requests served one after the other.)
C15_CreateAreaIdempotent ==
    [][(/\ LoopStep /\ Serialized
        /\ ap.actions[ap.i].type = "create_area"
        /\ ~NeedsApproval(ap.actions[ap.i], ap.approved)
        /\ Truthy(Get(ap.actions[ap.i].payload, "name")))
       => LET a == ap.actions[ap.i]
          IN  /\ PassBegins =>
                   IF HasAreaName(reg, a.payload.name)
                   THEN /\ ap'.applied = Append(ap.applied, a.id)
                        /\ io' = NoIo
                        /\ calls' = calls
                        /\ ap'.steps = ap.steps
                   ELSE /\ Len(io'.req) = 1
                        /\ io'.req[1].op = "area_create"
                        /\ io'.req[1].fields = [name |-> a.payload.name]
                        /\ ap'.applied = ap.applied
                        /\ ap'.steps = ap.steps
              /\ CallReturned =>
                   /\ ap'.applied = Append(ap.applied, a.id)
                   /\ Len(ap'.steps) = Len(ap.steps) + 1
                   /\ ap'.steps[Len(ap'.steps)].type = "note"]_vars


\* The value a field of an entity had when apply started (null without the
\* entity).
PriorValue(entity_id, f) ==
    LET S == {i \in 1..Len(hist.regBefore.entities) :
                hist.regBefore.entities[i].entity_id = entity_id}
    IN  IF S = {} THEN None ELSE hist.regBefore.entities[CHOOSE i \in S : TRUE][f]

\* A step of apply handles a hide_entity that passed the gate and names its
\* entity.
HandlesHide ==
    /\ LoopStep /\ Serialized
    /\ ap.actions[ap.i].type = "hide_entity"
    /\ ~NeedsApproval(ap.actions[ap.i], ap.approved)
    /\ Truthy(Get(ap.actions[ap.i].payload, "entity_id"))

\* The step starts one call, an entity_update of the entity that writes field
\* f alone, with value v.
StartsOnly(eid, f, v) ==
    /\ io'.pc # "idle"
    /\ Len(io'.req) = 1
    /\ io'.req[1].op = "entity_update" /\ io'.req[1].target = eid
    /\ DOMAIN io'.req[1].fields = {f}
    /\ io'.req[1].fields[f] = v

\* C16: apply handles a hide_entity in at most two attempts.  The first
\* sends an entity_update with hidden_by and records the one rollback step of
\* the action, for the entity, whose before map holds the values hidden_by
\* and disabled_by had when apply started; the second, made exactly when the
\* first did not succeed, sends one with disabled_by and records no step;
\* when it does not succeed either, its exception leaves apply.  The action
\* is appended to applied exactly when an attempt succeeds.  (Stated for
\* requests served one after the other.)
C16_HideFallback ==
    [][HandlesHide =>
        LET a == ap.actions[ap.i]
            eid == a.payload.entity_id
            by == GetOr(a.payload, "hidden_by", User)
        IN  /\ PassBegins =>
                 /\ ~ap.retry
                 /\ StartsOnly(eid, "hidden_by", by)
                 /\ ap'.steps = Append(ap.steps,
                                       [type |-> "entity_update", entity_id |-> eid,
                                        before |-> [hidden_by |-> PriorValue(eid, "hidden_by"),
                                                    disabled_by |->
                                                        PriorValue(eid, "disabled_by")]])
                 /\ ap'.applied = ap.applied /\ ap'.i = ap.i
            /\ CallReturned =>
                 /\ ap'.applied = Append(ap.applied, a.id)
                 /\ ap'.i = ap.i + 1
                 /\ ap'.steps = ap.steps
                 /\ io' = NoIo /\ pc' = pc
            /\ CallRaised =>
                 /\ ap'.applied = ap.applied
                 /\ ap'.steps = ap.steps
                 /\ ap'.i = ap.i
                 /\ Len(ap.steps) > 0
                 /\ ap.steps[Len(ap.steps)].type = "entity_update"
                 /\ ap.steps[Len(ap.steps)].entity_id = eid
                 /\ IF ~ap.retry
                    THEN StartsOnly(eid, "disabled_by", by) /\ ap'.retry /\ pc' = pc
                    ELSE pc' = "idle" /\ result'.status = "raised" /\ io' = NoIo
            /\ io.pc # "idle" => ap' = ap /\ pc' = pc]_vars

\* Apply returned after a hide_entity whose first call the registry rejected
\* and whose second call it accepted; the entity was disabled before.
C16_Witness ==
    /\ pc = "idle" /\ ApplyReturned
    /\ \E j \in 1..(Len(hist.applyCalls) - 1) :
         /\ "hidden_by" \in DOMAIN hist.applyCalls[j].fields
         /\ ~hist.applyCalls[j].ok /\ ~hist.applyCalls[j].done
         /\ "disabled_by" \in DOMAIN hist.applyCalls[j + 1].fields
         /\ hist.applyCalls[j + 1].ok
         /\ hist.applyCalls[j + 1].aid = hist.applyCalls[j].aid
         /\ hist.applyCalls[j].aid \in SeqToSet(result.applied_action_ids)
         /\ PriorValue(hist.applyCalls[j].target, "disabled_by") # None


\* A step that leaves the registry and the persisted documents as they are,
\* does not call the client and leaves no coroutine behind: the operations in
\* flight are where they were.
NothingTouched ==
    /\ reg' = reg
    /\ calls' = <<>> \/ calls' = calls
    /\ client' = client /\ conns' = conns /\ io' = io
    /\ pc' = pc /\ waiting' = waiting
    /\ planFile' = planFile
    /\ rollbackFile' = rollbackFile
    /\ ignoredFile' = ignoredFile

\* C17: a rollback requested when no rollback record is persisted returns at
\* once with ok = false and the detail that no record was found; it issues no
\* registry call and leaves plan, rollback record and ignore set as they are.
C17_RollbackWithoutRecord ==
    [][(rollbackFile = NoFile /\ ops' = ops + 1 /\ hist'.last = "rollback")
       => /\ result'.op = "rollback" /\ result'.status = "returned"
          /\ result'.ok = FALSE
          /\ result'.detail = "No rollback.json found"
          /\ NothingTouched]_vars

\* A rollback without a record has returned its failure after an apply that
\* raised had changed the registry.
C17_Witness ==
    /\ pc = "idle" /\ hist.last = "rollback"
    /\ rollbackFile = NoFile
    /\ result.op = "rollback" /\ ~result.ok
    /\ reg # RegApply

\* C18: an apply requested when no plan is persisted raises the validation
\* error at once: it does not list the registry, issues no registry call and
\* leaves plan, rollback record and ignore set as they are.
C18_ApplyWithoutPlan ==
    [][(planFile = NoFile /\ ops' = ops + 1 /\ hist'.last = "apply")
       => /\ result' = [op |-> "apply", status |-> "raised", error |-> "ValueError"]
          /\ ap' = ap
          /\ NothingTouched]_vars

\* An apply without a plan has raised the validation error, a second time.
C18_Witness ==
    /\ pc = "idle" /\ hist.last = "apply"
    /\ planFile = NoFile
    /\ result.op = "apply" /\ result.status = "raised" /\ result.error = "ValueError"
    /\ ops = 2


\* A step of audit(): its begin, a step of one of its listings, or the
\* computing of its report.
AuditStep == Begins("audit_fetch") \/ Moves({"audit_fetch", "audit_run"})

\* ... the one in which audit() returns its report.
AuditReturns == Moves({"audit_run"})

\* The items of every list of an audit report.
ReportItems(report) ==
    UNION {SeqToSet(report[k]) :
           k \in {"devices_without_area", "entities_without_effective_area",
                  "suffix_duplicate_entities", "unique_id_duplicates",
                  "generic_media_players", "helpers"}}

\* C19: audit() is read-only.  It sends no mutating call and leaves the
\* registries as they are, it returns no action (neither a list of actions
\* nor an item that has an action type), and the persisted plan, rollback
\* record and ignore set are what they were before the call.
C19_AuditReadOnly ==
    [][AuditStep =>
         /\ reg' = reg /\ calls' \in {calls, <<>>}
         /\ planFile' = planFile /\ rollbackFile' = rollbackFile
         /\ ignoredFile' = ignoredFile
         /\ drawn' = drawn /\ runs' = runs
         /\ AuditReturns =>
              /\ result'.op = "audit" /\ result'.status = "returned"
              /\ DOMAIN result'.report \cap {"actions", "plan"} = {}
              /\ \A item \in ReportItems(result'.report) :
                     DOMAIN item \cap {"type", "id", "requires_approval"} = {}]_vars

\* An audit returned its findings while apply was at work on a persisted plan.
C19_Witness ==
    /\ pc = "idle"
    /\ result.op = "audit" /\ result.status = "returned"
    /\ \E k \in 1..Len(waiting) :
         /\ waiting[k].pc = "apply_loop" /\ waiting[k].ap.i > 1
         /\ waiting[k].calls # <<>>
    /\ planFile # NoFile /\ Len(planFile[1].actions) > 0
    /\ ReportItems(result.report) # {}


----------------------------------------------------------------------------
\* Claims about the ignore store

\* The step serves a request of kind op to the ignore store.
StoreStep(op) ==
    /\ pops' = pops + 1
    /\ pc' = pc /\ waiting' = waiting
    /\ result'.op = op

\* The step repeats the fingerprints of the request before it, which was of
\* kind op; no other request wrote the store in between.
Repeats(op) == hist.store.op = op /\ hist'.store.fingerprints = hist.store.fingerprints

\* C20: the operations of the ignore store are idempotent set operations on
\* the persisted set.  An ignore of the fingerprints just ignored leaves the
\* set as it is, and so does an unignore of the fingerprints just unignored;
\* an unignore of the fingerprints just ignored leaves the set that was there
\* before the two, without those fingerprints; and the list read after a
\* clear is empty.
C20_IgnoreStoreIdempotent ==
    [][/\ StoreStep("ignore") /\ Repeats("ignore") => ignoredFile' = ignoredFile
       /\ StoreStep("unignore") /\ Repeats("unignore") => ignoredFile' = ignoredFile
       /\ StoreStep("unignore") /\ Repeats("ignore") =>
              ignoredFile' = hist.store.before \ hist.store.fingerprints
       /\ StoreStep("get_ignored") /\ hist.store.op = "clear" =>
              result'.ignored = <<>> /\ result'.ignored_count = 0]_vars

\* A fingerprint was ignored twice in a row, and the second request found it
\* in the set.
C20_Witness ==
    /\ result.op = "ignore"
    /\ hist.store.op = "ignore" /\ hist.store.prev_op = "ignore"
    /\ hist.store.fingerprints = hist.store.prev_fingerprints
    /\ hist.store.fingerprints \subseteq hist.store.before
    /\ ignoredFile = hist.store.before


-----------------------------------------------------------------------------
(* Claims about the registry client. *)

\* The connections that were opened and on which close() was never called.
Live == {c \in 1..Len(conns) : conns[c] = "open"}

\* C21: the process holds at most one live registry connection at any time,
\* also when several coroutines call the client while it is disconnected.
C21_AtMostOneLive == Cardinality(Live) <= 1


-----------------------------------------------------------------------------
(* Claims about the passes of the planner. *)

\* All actions that the planning runs so far generated.
Planned == UNION {SeqToSet(runs[i].all_actions) : i \in 1..Len(runs)}

\* The payload fields a fingerprint may take its key from, in this order.
KeyFields == <<"entity_id", "device_id", "area_id", "name">>

\* The first of these fields that the payload holds with a non-empty value,
\* and the empty string when it holds none.
FirstPresent(payload) ==
    LET present == {i \in 1..Len(KeyFields) : Truthy(Get(payload, KeyFields[i]))}
    IN  IF present = {} THEN <<>>
        ELSE payload[KeyFields[CHOOSE i \in present : \A j \in present : i <= j]]

\* C22: the fingerprint of an action is "{type}:{key}" with key the first
\* present, non-empty one of the payload's entity_id, device_id, area_id and
\* name; two actions of equal type and payload have equal fingerprints
\* whatever their id, reason and confidence.
C22_FingerprintKey ==
    /\ \A a \in Planned :
           action_fingerprint(a) = TypeStr(a.type) \o <<":">> \o FirstPresent(a.payload)
    /\ \A a, b \in Planned :
           a.type = b.type /\ a.payload = b.payload =>
               action_fingerprint(a) = action_fingerprint(b)

\* Two runs planned the same change under different ids, and its payload
\* holds more than one of the key fields.
C22_Witness ==
    \E a, b \in Planned :
        /\ a.id # b.id /\ a.type = b.type /\ a.payload = b.payload
        /\ Truthy(Get(a.payload, "entity_id")) /\ Truthy(Get(a.payload, "area_id"))


\* The actions of run r of a type for an entity.
ActionsFor(r, type, entity_id) ==
    {a \in SeqToSet(r.all_actions) :
        a.type = type /\ Get(a.payload, "entity_id") = entity_id}

\* The fallback grouping is in the snapshot of run r, or the run emits a
\* create_area for it.
FallbackExists(r) ==
    \/ \E i \in 1..Len(r.snap.areas) : Get(r.snap.areas[i], "name") = onbekend_area_name
    \/ \E a \in SeqToSet(r.all_actions) :
           a.type = "create_area" /\ Get(a.payload, "name") = onbekend_area_name

\* The entities of run r that the fallback pass is to place: active, without
\* effective area, not removed and not given an area by the token match.
Remaining(r) ==
    {i \in 1..Len(r.snap.entities) :
        LET er == r.snap.entities[i]
        IN  /\ Truthy(Get(er, "entity_id"))
            /\ IsActive(r.snap, er.entity_id)
            /\ Falsy(EffectiveAreaId(r.snap, er))
            /\ ActionsFor(r, "remove_entity_registry_entry", er.entity_id) = {}
            /\ \A a \in ActionsFor(r, "set_entity_area", er.entity_id) :
                   a.confidence # 95}

\* C23: in a planning run with fallback enabled, when the fallback grouping
\* is in the snapshot or the run emits a create_area for it, every active
\* entity without effective area that is not removed and that no earlier pass
\* gave an area gets a set_entity_area with confidence 0.6 that requires
\* approval.
C23_FallbackPlacement ==
    \A k \in 1..Len(runs) :
        runs[k].include_onbekend_fallback /\ FallbackExists(runs[k]) =>
            \A i \in Remaining(runs[k]) :
                \E a \in ActionsFor(runs[k], "set_entity_area",
                                    runs[k].snap.entities[i].entity_id) :
                    a.confidence = 60 /\ a.requires_approval


\* The reasons of the two pattern passes and, for each, the rules it reads,
\* the payload field of its target and the registry list of its targets.
PatternPasses ==
    { [fmt |-> "Rule: entity_id matches /{pat}/ -> area '{area_name}'.",
       rules |-> "entity_area", type |-> "set_entity_area",
       field |-> "entity_id", list |-> "entities", key |-> "entity_id"],
      [fmt |-> "Rule: device name matches /{pat}/ -> area '{area_name}'.",
       rules |-> "device_area", type |-> "set_device_area",
       field |-> "device_id", list |-> "devices", key |-> "id"] }

\* Every rule of the pass that can have given action a is without overwrite.
WithoutOverwrite(r, pass, a) ==
    \A i \in 1..Len(GetOr(r.ruleset, pass.rules, <<>>)) :
        LET rr == r.ruleset[pass.rules][i]
        IN  /\ StrOrEmpty(Get(rr, "pattern")) = a.reason.args[1]
            /\ Strip(StrOrEmpty(Get(rr, "area"))) = a.reason.args[2]
            => ~GetOr(rr, "overwrite", FALSE)

\* The target of an action of the pass has an area in the snapshot of run r:
\* an entity its own or its device's, a device its own.
TargetHasArea(r, pass, a) ==
    \E i \in 1..Len(r.snap[pass.list]) :
        LET x == r.snap[pass.list][i]
        IN  /\ Get(x, pass.key) = a.payload[pass.field]
            /\ IF pass.list = "entities" THEN Truthy(EffectiveAreaId(r.snap, x))
               ELSE Truthy(Get(x, "area_id"))

\* C24: a pattern rule without overwrite emits no area assignment for a
\* target that has an area in the snapshot, nor for one that an earlier pass
\* or an earlier rule of the same run emitted an area assignment for; for
\* entities and for devices.
C24_NoOverwriteSkips ==
    \A n \in 1..Len(runs) : \A pass \in PatternPasses :
        \A k \in 1..Len(runs[n].all_actions) :
            LET a == runs[n].all_actions[k]
            IN  a.reason.fmt = pass.fmt /\ a.type = pass.type
                /\ WithoutOverwrite(runs[n], pass, a) =>
                    /\ ~TargetHasArea(runs[n], pass, a)
                    /\ \A j \in 1..(k - 1) :
                           LET b == runs[n].all_actions[j]
                           IN  ~(b.type = pass.type
                                 /\ b.payload[pass.field] = a.payload[pass.field])


\* The entity ids of the snapshot of run r that carry the unique_id uid.
GroupOf(r, uid) ==
    {r.snap.entities[i].entity_id :
        i \in {j \in 1..Len(r.snap.entities) :
                  /\ Truthy(Get(r.snap.entities[j], "entity_id"))
                  /\ Get(r.snap.entities[j], "unique_id") = uid}}

\* The unique_ids that two or more entities of the snapshot of run r share.
SharedUniqueIds(r) ==
    {uid \in {Get(r.snap.entities[i], "unique_id") : i \in 1..Len(r.snap.entities)} :
        Truthy(uid) /\ Cardinality(GroupOf(r, uid)) >= 2}

\* The lexicographically smallest of a set of ids.
Smallest(ids) == CHOOSE x \in ids : \A y \in ids : y = x \/ StrLess(x, y)

\* The hide_entity actions of the unique-id pass in run r.
UniqueIdHides(r) ==
    {a \in SeqToSet(r.all_actions) :
        a.type = "hide_entity"
        /\ a.reason.fmt = "Duplicate unique_id '{uid}'. Keeping '{kept}', hiding '{eid}'."}

\* The unique-id pass of run r proposes to hide eid as a duplicate under uid
\* with confidence 0.9 and approval required.
HidesDuplicate(r, uid, eid) ==
    \E a \in UniqueIdHides(r) :
        /\ a.payload.entity_id = eid
        /\ a.reason.args = <<uid, Smallest(GroupOf(r, uid)), eid>>
        /\ a.confidence = 90 /\ a.requires_approval

\* The unique-id pass of run r never proposes to hide the smallest id of a
\* group.
KeepsSmallest(r) ==
    \A uid \in SharedUniqueIds(r) : \A a \in UniqueIdHides(r) :
        a.payload.entity_id # Smallest(GroupOf(r, uid))

\* C25 as stated: for every group of two or more entities sharing a
\* unique_id the plan proposes hide_entity (confidence 0.9, approval required)
\* for every member other than the lexicographically smallest id, and the
\* unique-id pass never proposes hiding that smallest id.
C25_HidesAllButSmallest ==
    \A n \in 1..Len(runs) :
        /\ \A uid \in SharedUniqueIds(runs[n]) :
               \A eid \in GroupOf(runs[n], uid) \ {Smallest(GroupOf(runs[n], uid))} :
                   HidesDuplicate(runs[n], uid, eid)
        /\ KeepsSmallest(runs[n])

\* C25, amended: the same for every member other than the smallest for which
\* no earlier pass of the run proposed a removal or a hide; a member with
\* such a proposal gets none from the unique-id pass.
C25_HidesUnplannedButSmallest ==
    \A n \in 1..Len(runs) :
        /\ \A uid \in SharedUniqueIds(runs[n]) :
               \A eid \in GroupOf(runs[n], uid) \ {Smallest(GroupOf(runs[n], uid))} :
                   LET earlier == (ActionsFor(runs[n], "remove_entity_registry_entry", eid)
                                   \cup ActionsFor(runs[n], "hide_entity", eid))
                                  \ UniqueIdHides(runs[n])
                   IN  IF earlier = {} THEN HidesDuplicate(runs[n], uid, eid)
                       ELSE \A a \in UniqueIdHides(runs[n]) : a.payload.entity_id # eid
        /\ KeepsSmallest(runs[n])

\* A run found a group of entities sharing a unique_id and proposed to hide
\* its member that is not the smallest, which no earlier pass had touched.
C25_Witness ==
    \E n \in 1..Len(runs) : \E uid \in SharedUniqueIds(runs[n]) :
        \E eid \in GroupOf(runs[n], uid) \ {Smallest(GroupOf(runs[n], uid))} :
            /\ HidesDuplicate(runs[n], uid, eid)
            /\ ActionsFor(runs[n], "remove_entity_registry_entry", eid) = {}
            /\ Cardinality(ActionsFor(runs[n], "hide_entity", eid)) = 1


\* The explicit areas a device's active entities carry in the snapshot of
\* run r: the area_id of every entity that names the device, has a state
\* other than unavailable and has an area_id of its own.
ExplicitAreas(r, d) ==
    {r.snap.entities[i].area_id :
        i \in {j \in 1..Len(r.snap.entities) :
                 /\ Get(r.snap.entities[j], "device_id") = d
                 /\ IsActive(r.snap, r.snap.entities[j].entity_id)
                 /\ Get(r.snap.entities[j], "area_id") # None}}

\* Run r proposes the backfill of device d with area a.
Backfills(r, d, a) ==
    \E x \in SeqToSet(r.all_actions) :
        /\ x.type = "set_device_area"
        /\ x.payload = [device_id |-> d, area_id |-> a]
        /\ x.confidence = 98 /\ ~x.requires_approval

\* The devices of the snapshot of run r that have no area.
Unplaced(r) ==
    {Get(r.snap.devices[i], "id") :
        i \in {j \in 1..Len(r.snap.devices) : Get(r.snap.devices[j], "area_id") = None}}

AreaIds(r) == {Get(r.snap.areas[i], "area_id") : i \in 1..Len(r.snap.areas)}

DeviceIds(r) == {Get(r.snap.devices[i], "id") : i \in 1..Len(r.snap.devices)}

\* C26: a planning run proposes set_device_area(d, a) with confidence 0.98
\* and without approval exactly for the devices d without an area whose
\* active linked entities' own areas are the one-element set {a}; with no
\* such area or with several the run proposes no backfill of d.
C26_DeviceBackfill ==
    \A n \in 1..Len(runs) : \A d \in DeviceIds(runs[n]) : \A a \in AreaIds(runs[n]) :
        Backfills(runs[n], d, a) <=>
            (d \in Unplaced(runs[n]) /\ ExplicitAreas(runs[n], d) = {a})

\* A run backfilled a device one of whose linked entities is unavailable
\* and carries another area.
C26_Witness ==
    \E n \in 1..Len(runs) : \E d \in Unplaced(runs[n]) : \E a \in AreaIds(runs[n]) :
        /\ Backfills(runs[n], d, a)
        /\ \E i \in 1..Len(runs[n].snap.entities) :
               /\ Get(runs[n].snap.entities[i], "device_id") = d
               /\ ~IsActive(runs[n].snap, runs[n].snap.entities[i].entity_id)
               /\ Get(runs[n].snap.entities[i], "area_id") \notin {None, a}


\* The entities of the snapshot of run r that are active and have no area,
\* their own or their device's.
Arealess(r) ==
    {i \in 1..Len(r.snap.entities) :
        LET er == r.snap.entities[i]
        IN  /\ IsActive(r.snap, er.entity_id)
            /\ Get(er, "area_id") = None
            /\ \/ Get(er, "device_id") = None
               \/ DeviceArea(r.snap, er.device_id) = None}

\* The groupings that are candidates for entity i of run r: their name has
\* tokens, and the entity's haystack holds all of them.
Candidates(r, i) ==
    LET er == r.snap.entities[i]
        ht == tokenize(Haystack(er, Lookup(r.snap.states, "entity_id", er.entity_id)))
    IN  {j \in 1..Len(r.snap.areas) :
            /\ tokenize(r.snap.areas[j].name) # {}
            /\ tokenize(r.snap.areas[j].name) \subseteq ht}

\* Run r proposes, by token match, area a for the entity.
TokenMatched(r, entity_id, a) ==
    \E x \in ActionsFor(r, "set_entity_area", entity_id) :
        /\ x.payload = [entity_id |-> entity_id, area_id |-> a]
        /\ x.confidence = 95 /\ ~x.requires_approval

\* An earlier pass of run r placed the entity by inheritance, or a removal
\* rule proposed its removal.
PlacedEarlier(r, entity_id) ==
    \E x \in ActionsFor(r, "set_entity_area", entity_id) : x.confidence = 100

RemovedEarlier(r, entity_id) ==
    \E x \in ActionsFor(r, "remove_entity_registry_entry", entity_id) :
        x.confidence \in {95, 100}

\* Entity i of run r gets a token-match action exactly when one grouping is
\* a candidate, and then for that grouping.
OneCandidateRule(r, i) ==
    \A j \in 1..Len(r.snap.areas) :
        TokenMatched(r, r.snap.entities[i].entity_id, r.snap.areas[j].area_id)
            <=> Candidates(r, i) = {j}

\* When fallback is requested and an entity has no or several candidates,
\* the run needs the fallback grouping: it is there or it is created.
NeedsFallback(r, i) ==
    (r.include_onbekend_fallback /\ Cardinality(Candidates(r, i)) # 1)
        => FallbackExists(r)

\* C27 as stated: every active entity without an area and without an
\* earlier planned area gets set_entity_area (0.95, no approval) exactly
\* when one grouping is a candidate.
C27_TokenMatchAll ==
    \A n \in 1..Len(runs) : \A i \in Arealess(runs[n]) :
        ~PlacedEarlier(runs[n], runs[n].snap.entities[i].entity_id)
            => OneCandidateRule(runs[n], i) /\ NeedsFallback(runs[n], i)

\* C27: every active entity without an area, without an earlier planned
\* area and without an earlier planned removal gets set_entity_area (0.95,
\* no approval) for a grouping exactly when that grouping is its only
\* candidate, and with no or several candidates the fallback is needed when
\* requested; an entity whose removal is planned gets no token-match action.
C27_TokenMatchRemaining ==
    \A n \in 1..Len(runs) : \A i \in Arealess(runs[n]) :
        LET r == runs[n]
            entity_id == r.snap.entities[i].entity_id
        IN  IF RemovedEarlier(r, entity_id)
            THEN \A j \in 1..Len(r.snap.areas) :
                     ~TokenMatched(r, entity_id, r.snap.areas[j].area_id)
            ELSE ~PlacedEarlier(r, entity_id)
                     => OneCandidateRule(r, i) /\ NeedsFallback(r, i)

\* A run placed an entity whose haystack holds both tokens of one grouping
\* and only one of the tokens of another.
C27_Witness ==
    \E n \in 1..Len(runs) : \E i \in Arealess(runs[n]) :
        LET r == runs[n]
            entity_id == r.snap.entities[i].entity_id
        IN  /\ ~RemovedEarlier(r, entity_id)
            /\ Cardinality(Candidates(r, i)) = 1
            /\ \E j \in Candidates(r, i) :
                 /\ Cardinality(tokenize(r.snap.areas[j].name)) = 2
                 /\ TokenMatched(r, entity_id, r.snap.areas[j].area_id)
            /\ \E k \in 1..Len(r.snap.areas) :
                 /\ k \notin Candidates(r, i)
                 /\ tokenize(r.snap.areas[k].name) \cap
                        tokenize(Haystack(r.snap.entities[i],
                                          Lookup(r.snap.states, "entity_id", entity_id))) # {}


\* The largest index the numbered ids are compared with.
MaxIndex == 12

\* The decimal numeral of n, without a leading zero.
RECURSIVE Decimal(_)
Decimal(n) ==
    IF n < 10 THEN <<DigitChar(n)>>
    ELSE Decimal(n \div 10) \o <<DigitChar(n % 10)>>

\* The id is an id of the set ids followed by "_" and an index of at least 2.
NumberedCopy(ids, entity_id) ==
    \E base \in ids : \E n \in 2..MaxIndex :
        entity_id = base \o <<"_">> \o Decimal(n)

\* Run r proposes the removal of the entity as a suffix duplicate.
SuffixRemoval(r, entity_id) ==
    \E x \in ActionsFor(r, "remove_entity_registry_entry", entity_id) :
        x.confidence = 90 /\ x.requires_approval

\* The ids the last audit reports as suffix duplicates.
AuditFlagged ==
    {result.report.suffix_duplicate_entities[i].entity_id :
        i \in 1..Len(result.report.suffix_duplicate_entities)}

\* C28: the audit flags an entity id, and a planning run proposes its
\* removal (confidence 0.9, approval required) unless a rule has already
\* marked it removed, if and only if the id is an existing id followed by
\* "_" and an integer of at least 2 without leading zero; ids ending in
\* "_1" and ids whose base is not registered are never flagged.
C28_SuffixDuplicates ==
    /\ \A n \in 1..Len(runs) : \A entity_id \in EntityIds(runs[n].snap) :
           SuffixRemoval(runs[n], entity_id) <=>
               /\ NumberedCopy(EntityIds(runs[n].snap), entity_id)
               /\ ~RemovedEarlier(runs[n], entity_id)
    /\ (result.op = "audit" /\ result.status = "returned") =>
           AuditFlagged = {entity_id \in EntityIds(reg) :
                              NumberedCopy(EntityIds(reg), entity_id)}

\* The audit has flagged an id with a two-digit index whose removal a
\* planning run proposed, while the registry holds an id ending in "_1" or
\* in an index with a leading zero that neither of them flagged.
C28_Witness ==
    /\ result.op = "audit" /\ result.status = "returned"
    /\ \E n \in 1..Len(runs) : \E entity_id \in AuditFlagged :
          /\ runs[n].snap = reg
          /\ SuffixRemoval(runs[n], entity_id)
          /\ IsDigit(entity_id[Len(entity_id) - 1])
          /\ \E other \in EntityIds(reg) \ AuditFlagged :
                 /\ \/ SubSeq(other, Len(other) - 1, Len(other)) = <<"_", "1">>
                    \/ SubSeq(other, Len(other) - 2, Len(other) - 1) = <<"_", "0">>
                 /\ ~SuffixRemoval(runs[n], other)


\* The rename candidates of run r: the positions of the active media players
\* of its snapshot that have an effective area and a generic name.
RenameCandidates(r) ==
    {i \in 1..Len(r.snap.entities) :
        LET er == r.snap.entities[i]
        IN  /\ StartsWith(er.entity_id, <<"m", "e", "d", "i", "a", "_", "p", "l", "a", "y", "e", "r", ".">>)
            /\ IsActive(r.snap, er.entity_id)
            /\ Truthy(EffectiveAreaId(r.snap, er))
            /\ looks_generic_media_name(MediaCurrent(r.snap, er))}

\* The group of a candidate: its effective area and its base label.
GroupKey(r, i) ==
    <<EffectiveAreaId(r.snap, r.snap.entities[i]),
      media_base_label(r.snap.entities[i].entity_id, MediaCurrent(r.snap, r.snap.entities[i]))>>

GroupMembers(r, i) == {j \in RenameCandidates(r) : GroupKey(r, j) = GroupKey(r, i)}

\* The place of a candidate among the members of its group, in ascending
\* order of entity id, counted from 1.
IndexInGroup(r, i) ==
    1 + Cardinality({j \in GroupMembers(r, i) :
                        StrLess(r.snap.entities[j].entity_id, r.snap.entities[i].entity_id)})

\* The name of the area of a group, or its id when it has no name.
GroupAreaName(r, i) ==
    LET named == {k \in 1..Len(r.snap.areas) :
                     /\ r.snap.areas[k].area_id = GroupKey(r, i)[1]
                     /\ Truthy(Get(r.snap.areas[k], "name"))}
    IN  IF named = {} THEN GroupKey(r, i)[1]
        ELSE r.snap.areas[CHOOSE k \in named : \A m \in named : m <= k].name

\* The name the numbering gives a candidate.
NumberedName(r, i) ==
    GroupKey(r, i)[2] \o <<" ">> \o GroupAreaName(r, i)
        \o (IF Cardinality(GroupMembers(r, i)) > 1
            THEN <<" ">> \o Decimal(IndexInGroup(r, i)) ELSE <<>>)

\* The names run r proposes for an entity.
ProposedNames(r, entity_id) ==
    {x.payload.name : x \in ActionsFor(r, "rename_entity", entity_id)}

\* C29: the rename candidates are grouped by (effective area, base label);
\* the members of a group of more than one, in ascending order of entity id,
\* get the indices 1..n appended to their new name, and the only member of a
\* group gets a name without index.
C29_RenameNumbering ==
    \A n \in 1..Len(runs) : \A i \in RenameCandidates(runs[n]) :
        ProposedNames(runs[n], runs[n].snap.entities[i].entity_id)
            = {NumberedName(runs[n], i)}

\* A run numbered a group whose members the registry lists in descending
\* order of id, and named the only member of another group of the same area
\* without index.
C29_Witness ==
    \E n \in 1..Len(runs) : \E i, j, k \in RenameCandidates(runs[n]) :
        LET r == runs[n]
        IN  /\ i < j /\ j \in GroupMembers(r, i)
            /\ StrLess(r.snap.entities[j].entity_id, r.snap.entities[i].entity_id)
            /\ ProposedNames(r, r.snap.entities[j].entity_id)
                 = {GroupKey(r, j)[2] \o <<" ">> \o GroupAreaName(r, j) \o <<" ", "1">>}
            /\ ProposedNames(r, r.snap.entities[i].entity_id)
                 = {GroupKey(r, i)[2] \o <<" ">> \o GroupAreaName(r, i) \o <<" ", "2">>}
            /\ GroupKey(r, k)[1] = GroupKey(r, i)[1]
            /\ GroupMembers(r, k) = {k}
            /\ ProposedNames(r, r.snap.entities[k].entity_id)
                 = {GroupKey(r, k)[2] \o <<" ">> \o GroupAreaName(r, k)}


\* The rename_entity actions of run r.
Renames(r) == {x \in SeqToSet(r.all_actions) : x.type = "rename_entity"}

\* C30: within one plan no two distinct entities are proposed the same new
\* name by rename_entity actions.
C30_NamesDisambiguated ==
    \A n \in 1..Len(runs) : \A x, y \in Renames(runs[n]) :
        x.payload.entity_id # y.payload.entity_id => x.payload.name # y.payload.name


\* The action types apply dispatches on.
SupportedTypes ==
    {"create_area", "set_entity_area", "set_device_area", "rename_entity",
     "hide_entity", "remove_entity_registry_entry", "rename_device", "rename_area"}

\* The reason apply gives for skipping action a when the caller approved the
\* ids in approved: the approval it lacks, the payload fields its type
\* requires, or its type.
MissingFields(type) ==
    CASE type = "create_area" -> "missing name"
      [] type = "set_entity_area" -> "missing entity_id/area_id"
      [] type = "set_device_area" -> "missing device_id/area_id"
      [] type = "rename_entity" -> "missing entity_id/name"
      [] type = "rename_device" -> "missing device_id/name"
      [] type = "rename_area" -> "missing area_id/name"
      [] type = "hide_entity" -> "missing entity_id"
      [] type = "remove_entity_registry_entry" -> "missing entity_id"

SkipCause(a, approved) ==
    IF a.requires_approval /\ a.id \notin approved
    THEN [text |-> "requires_approval", arg |-> ""]
    ELSE IF a.type \notin SupportedTypes
    THEN [text |-> "unsupported action type", arg |-> a.type]
    ELSE [text |-> MissingFields(a.type), arg |-> ""]

\* Action a is one apply skips: it lacks the approval it requires, its type
\* is not one apply dispatches on, or a field its type requires is missing.
MustSkip(a, approved) ==
    \/ a.requires_approval /\ a.id \notin approved
    \/ a.type \notin SupportedTypes
    \/ \E f \in RequiredFields(a.type) : Falsy(Get(a.payload, f))

\* C31: the step of apply that handles an action it must skip (not approved,
\* required payload field missing, unsupported type) leaves the registry, the
\* calls issued, the rollback steps and the applied ids as they were and adds
\* one skipped entry with the action's id and the matching reason; no other
\* step of the loop adds a skipped entry.
C31_SkipIsInert ==
    [][LoopStep =>
         LET a == ap.actions[ap.i]
         IN  IF MustSkip(a, ap.approved)
             THEN /\ reg' = reg
                  /\ calls' = calls
                  /\ ap'.steps = ap.steps
                  /\ ap'.applied = ap.applied
                  /\ ap'.skipped = Append(ap.skipped,
                                          [id |-> a.id, reason |-> SkipCause(a, ap.approved)])
             ELSE ap'.skipped = ap.skipped]_vars

\* An apply has returned whose plan held an action of an unsupported type and
\* one that lacked approval; both are among the skipped with their reasons,
\* and the registry is as it was when apply started.
C31_Witness ==
    /\ ApplyReturned
    /\ \E k \in 1..Len(result.skipped) :
         /\ result.skipped[k].reason.text = "unsupported action type"
         /\ result.skipped[k].reason.arg = "delete_area"
    /\ \E k \in 1..Len(result.skipped) :
         result.skipped[k].reason.text = "requires_approval"
    /\ result.applied_action_ids = <<>>
    /\ result.rollback.steps = <<>>
    /\ reg = hist.regBefore


\* The action of the running apply that has id aid.
ActionOf(aid) == CHOOSE a \in SeqToSet(ap.actions) : a.id = aid

\* The applied ids that own a rollback step, in the order of applied: all but
\* those of a create_area whose name was in use when apply listed the areas.
StepOwners ==
    LET Owns(aid) == ~(ActionOf(aid).type = "create_area" /\ AreaPresent(ActionOf(aid)))
    IN  SelectSeq(result.applied_action_ids, Owns)

UpdateSteps == {"entity_update", "device_update", "area_update"}

\* Step s is the step of action a: the tag and the target of a's type.
StepMatches(s, a) ==
    CASE a.type = "create_area" -> s.type = "note" /\ s.name = a.payload.name
      [] a.type \in {"set_entity_area", "rename_entity", "hide_entity"} ->
            s.type = "entity_update" /\ s.entity_id = a.payload.entity_id
      [] a.type \in {"set_device_area", "rename_device"} ->
            s.type = "device_update" /\ s.device_id = a.payload.device_id
      [] a.type = "rename_area" ->
            s.type = "area_update" /\ s.area_id = a.payload.area_id
      [] a.type = "remove_entity_registry_entry" ->
            s.type = "entity_restore_note" /\ s.entity_id = a.payload.entity_id
      [] OTHER -> FALSE

\* The fields the registry calls accepted for action a have written.
ChangedFields(a) ==
    UNION {DOMAIN hist.applyCalls[j].fields :
             j \in {i \in 1..Len(hist.applyCalls) :
                      hist.applyCalls[i].aid = a.id /\ hist.applyCalls[i].ok}}

\* The fields an action of the given type may write: one field for a move or
\* a rename, the fields of both hide mechanisms for hide_entity.
MayChange(type) ==
    CASE type \in {"set_entity_area", "set_device_area"} -> {"area_id"}
      [] type \in {"rename_entity", "rename_area"} -> {"name"}
      [] type = "rename_device" -> {"name_by_user"}
      [] type = "hide_entity" -> {"hidden_by", "disabled_by"}
      [] OTHER -> {}

\* The steps of a returned apply are those of the applied actions that own
\* one, one each and in the order of applied.
StepsFollowApplied ==
    /\ Len(result.rollback.steps) = Len(StepOwners)
    /\ \A k \in 1..Len(StepOwners) :
         StepMatches(result.rollback.steps[k], ActionOf(StepOwners[k]))

\* C32 as stated: when apply returns, steps holds exactly one step per applied
\* action (none for a create_area whose name existed), in the order of
\* applied, and the before map of each update step holds only fields the
\* action has changed.
C32_BeforeOnlyChanged ==
    ApplyReturned =>
        /\ StepsFollowApplied
        /\ \A k \in 1..Len(StepOwners) :
             result.rollback.steps[k].type \in UpdateSteps =>
                 DOMAIN result.rollback.steps[k].before
                     \subseteq ChangedFields(ActionOf(StepOwners[k]))

\* C32, amended: when apply returns, steps holds exactly one step per applied
\* action (none for a create_area whose name existed), in the order of
\* applied, and the before map of each update step holds exactly the fields
\* an action of that type may change, those it has changed among them: the
\* step of a hide_entity holds hidden_by and disabled_by whichever of the two
\* the registry accepted.
C32_BeforeMayChange ==
    ApplyReturned =>
        /\ StepsFollowApplied
        /\ \A k \in 1..Len(StepOwners) :
             result.rollback.steps[k].type \in UpdateSteps =>
                 /\ DOMAIN result.rollback.steps[k].before
                        = MayChange(ActionOf(StepOwners[k]).type)
                 /\ ChangedFields(ActionOf(StepOwners[k]))
                        \subseteq DOMAIN result.rollback.steps[k].before

\* An apply has returned that applied two actions, a hide_entity among them
\* whose step holds both hide fields while one was written, and recorded
\* their two steps.
C32_Witness ==
    /\ ApplyReturned
    /\ Len(result.applied_action_ids) = 2
    /\ Len(result.rollback.steps) = 2
    /\ \E k \in 1..2 :
         /\ ActionOf(result.applied_action_ids[k]).type = "hide_entity"
         /\ DOMAIN result.rollback.steps[k].before = {"hidden_by", "disabled_by"}
         /\ Cardinality(ChangedFields(ActionOf(result.applied_action_ids[k]))) = 1


\* C33: a coroutine whose last call to the client failed with a transport
\* failure (a timeout or a lost connection), and that alone calls the client,
\* begins its next call by re-establishing the connection: the call opens a
\* connection (closing the held one first when it is connect()) before any
\* request is sent.
C33_ReconnectsAfterFailure ==
    [][\A t \in Tasks :
         (/\ task[t].pc = "idle"
          /\ task[t].last \in {"timeout", "ws_error"}
          /\ task'[t].pc # "idle"
          /\ \A u \in Tasks \ {t} : task[u] = NoTask)
         => task'[t].pc \in {"opening", "closing_old"}]_vars


\* C34: whenever a plan holds a hide_entity of the unique-id pass, the entity
\* that pass keeps (the smallest id of the group, named in the reason) has no
\* remove_entity_registry_entry action in the same plan.
C34_KeptNotRemoved ==
    \A n \in 1..Len(runs) :
        \A a \in UniqueIdHides(runs[n]) \cap SeqToSet(runs[n].plan.actions) :
            \A x \in SeqToSet(runs[n].plan.actions) :
                x.type = "remove_entity_registry_entry" =>
                    x.payload.entity_id # a.reason.args[2]


\* The ids of a list of actions or of skipped entries, in its order.
IdsOf(s) == [k \in 1..Len(s) |-> s[k].id]

\* The members of ids that are in the set keep, in the order of ids.
Restrict(ids, keep) ==
    LET In(x) == x \in keep
    IN  SelectSeq(ids, In)

\* C35: when apply returns, every action of the plan that was persisted when
\* it began has its id in applied or among the skipped, not in both and once
\* only, and each of the two lists is in plan order: it is the list of the
\* plan's ids restricted to its members.
C35_AppliedSkippedPartition ==
    ApplyReturned =>
        LET ids == IdsOf(hist.planAtStart[1].actions)
            applied == result.applied_action_ids
            skipped == IdsOf(result.skipped)
        IN  /\ \A k \in 1..Len(ids) :
                 (ids[k] \in SeqToSet(applied)) # (ids[k] \in SeqToSet(skipped))
            /\ Len(applied) + Len(skipped) = Len(ids)
            /\ applied = Restrict(ids, SeqToSet(applied))
            /\ skipped = Restrict(ids, SeqToSet(skipped))

\* An apply has returned on a plan of two actions of which it applied the
\* second and skipped the first.
C35_Witness ==
    /\ ApplyReturned
    /\ Len(hist.planAtStart[1].actions) = 2
    /\ result.applied_action_ids = <<hist.planAtStart[1].actions[2].id>>
    /\ IdsOf(result.skipped) = <<hist.planAtStart[1].actions[1].id>>


\* The last apply returned after an earlier apply had returned and written
\* its record, and the rollback that followed it has returned.
SecondApplyReverted ==
    /\ pc = "idle"
    /\ hist.phase = "reverted"
    /\ hist.rollbackBefore # NoFile

\* The last apply returned with every action skipped, and the rollback that
\* followed it has returned.
SkippedApplyReverted ==
    /\ pc = "idle"
    /\ hist.phase = "reverted"
    /\ Len(ap.actions) >= 1
    /\ Len(ap.skipped) = Len(ap.actions)

\* C36: the record a returned apply leaves holds the steps of that apply
\* alone; after apply, apply, rollback on one plan with the same approvals,
\* the second apply's and the rollback's calls accepted, the registry is as it
\* was when the second apply began; and after an apply that skipped every
\* action the record is empty and the rollback that follows reverts nothing,
\* calls nothing and leaves the registry alone.  (The second apply and the
\* rollback are served one after the other; the first conjunct holds however
\* the requests overlap.)
C36_RecordOfLastApply ==
    /\ ApplyReturned => rollbackFile = <<[steps |-> ap.steps]>>
    /\ SecondApplyReverted /\ hist.accepted /\ Serialized => reg = hist.regBefore
    /\ SkippedApplyReverted /\ Serialized =>
          /\ rollbackFile = <<[steps |-> <<>>]>>
          /\ result.ok /\ result.reverted = 0
          /\ calls = <<>>
          /\ reg = hist.regBefore

\* Two applies of one plan and a rollback have run, every call of the second
\* apply and of the rollback accepted: the first apply changed the registry,
\* the second recorded a step, the rollback reverted it, and the registry is
\* as the first apply left it.
C36_Witness ==
    /\ SecondApplyReverted /\ hist.accepted /\ Serialized
    /\ ops = 3
    /\ hist.regBefore # RegApply
    /\ reg = hist.regBefore
    /\ result.reverted >= 1
    /\ hist.rollbackBefore # rollbackFile

\* An apply of a plan of two actions, none approved, has skipped both and
\* returned, and the rollback that followed it has returned: the second half
\* of C36 is about this state.
C36_SkippedWitness ==
    /\ SkippedApplyReverted /\ Serialized
    /\ Len(ap.actions) = 2
    /\ \A k \in 1..2 : ap.skipped[k] = RequiresApprovalEntry(ap.actions[k].id)
    /\ rollbackFile = <<[steps |-> <<>>]>>
    /\ result.reverted = 0


\* The positions in the actions of run r that hold an action of the given
\* type on entity eid.
PositionsFor(r, type, eid) ==
    {k \in 1..Len(r.all_actions) :
        r.all_actions[k].type = type /\ Get(r.all_actions[k].payload, "entity_id") = eid}

\* C37: the actions a planning run generates hold at most one
\* remove_entity_registry_entry and at most one hide_entity per entity id,
\* whichever of the literal-id, regex, suffix-duplicate and unique-id passes
\* propose it.
C37_OneRemoveOneHide ==
    \A n \in 1..Len(runs) :
        \A i \in 1..Len(runs[n].snap.entities) :
            /\ Cardinality(PositionsFor(runs[n], "remove_entity_registry_entry",
                                        runs[n].snap.entities[i].entity_id)) <= 1
            /\ Cardinality(PositionsFor(runs[n], "hide_entity",
                                        runs[n].snap.entities[i].entity_id)) <= 1

\* A run under the rules that remove l.x_2 and hide l.x_1 on a snapshot that
\* holds them and l.x, all three sharing a unique_id: l.x_2 is also a suffix
\* duplicate of l.x and l.x_1 also a duplicate under the unique_id, and the
\* run proposes one removal of the first and one hide of the second, those of
\* the rules.
C37_Witness ==
    \E n \in 1..Len(runs) :
        /\ runs[n].ruleset = [entity_remove |-> [ids |-> <<NE1.entity_id>>],
                              entity_hide |-> [ids |-> <<NE3.entity_id>>]]
        /\ {NE1.entity_id, NE2.entity_id, NE3.entity_id}
               \subseteq {runs[n].snap.entities[i].entity_id :
                             i \in 1..Len(runs[n].snap.entities)}
        /\ \E k \in PositionsFor(runs[n], "remove_entity_registry_entry", NE1.entity_id) :
               runs[n].all_actions[k].confidence = 100
        /\ \E k \in PositionsFor(runs[n], "hide_entity", NE3.entity_id) :
               runs[n].all_actions[k].confidence = 100
        /\ Cardinality(PositionsFor(runs[n], "remove_entity_registry_entry", NE1.entity_id)) = 1
        /\ Cardinality(PositionsFor(runs[n], "hide_entity", NE3.entity_id)) = 1


\* The step in which a listing of the snapshot of plan() raises.
PlanFetchFailed == Moves({"plan_fetch"}) /\ pc' = "idle"

\* A step of plan(): its begin, a step of one of its listings, or the run of
\* the planner that ends it.
PlanStepTaken == Begins("plan_fetch") \/ Moves({"plan_fetch", "plan_run"})

\* A step of rollback(): its begin, a step of its loop or of a call the loop
\* awaits, or its finish.
RollbackStepTaken ==
    \/ ops' = ops + 1 /\ hist'.last = "rollback"
    \/ Moves({"rollback_loop"})

\* C38: a step of plan() leaves the registry as it is and issues no call that
\* changes it, leaves the rollback record and the ignore set unchanged, and
\* leaves the persisted plan unchanged when the snapshot fetch fails; a step of
\* rollback() leaves the persisted plan, the rollback record and the ignore
\* set unchanged.
C38_PlanAndRollbackFrames ==
    [][/\ PlanStepTaken =>
            /\ reg' = reg
            /\ calls' \in {calls, <<>>}
            /\ rollbackFile' = rollbackFile
            /\ ignoredFile' = ignoredFile
       /\ PlanFetchFailed => planFile' = planFile
       /\ RollbackStepTaken =>
            /\ planFile' = planFile
            /\ rollbackFile' = rollbackFile
            /\ ignoredFile' = ignoredFile]_vars

\* A plan() has returned after an apply had written a rollback record: it
\* replaced the persisted plan and the record is still there.
C38_Witness ==
    /\ pc = "idle"
    /\ result.op = "plan" /\ result.status = "returned"
    /\ planFile = <<result.plan>>
    /\ planFile # hist.planAtStart
    /\ rollbackFile # NoFile
    /\ rollbackFile[1].steps # <<>>

====
